---- MODULE Spec2Model ----
(***************************************************************************)
(* A model of the agent-dashboard API routes: the gateway client, the      *)
(* coercion helpers, the response normalizers and the route handlers that  *)
(* orchestrate the gateway calls.                                          *)
(*                                                                         *)
(* JSON values are tagged records.  An object is a sequence of             *)
(* <<key, value>> pairs, an array a sequence of values.  A string whose    *)
(* text is the JSON serialization of a value v is JsonText(v); every other *)
(* string of the model is not valid JSON unless NumberOf parses it.        *)
(* Instants are counted in seconds since the epoch.                        *)
(***************************************************************************)
EXTENDS Integers, Sequences, FiniteSets, TLC

\* ------------------------------------------------------------------ bounds

\* Longest session list the gateway returns for sessions_list.
MaxSessions == 2

\* The interval of the page ticks this many times, and a job is rerun this many times.
MaxTicks == 1
MaxReruns == 1

\* ------------------------------------------------------------- JSON values

Undefined == [t |-> "undefined"]
Null == [t |-> "null"]
Str(s) == [t |-> "string", s |-> s]
Num(n) == [t |-> "number", n |-> n]
Bool(b) == [t |-> "boolean", b |-> b]
Arr(a) == [t |-> "array", a |-> a]
Obj(o) == [t |-> "object", o |-> o]
JsonText(v) == [t |-> "string", json |-> v]
\* A string assembled by a template literal from the listed parts.
Template(parts) == [t |-> "string", tpl |-> parts]
\* The outcome of an evaluation that raised a TypeError.
TypeError == [t |-> "TypeError"]
\* A response body that response.json() cannot parse.
Unparsable == [t |-> "unparsable"]

O1(k, v) == Obj(<< <<k, v>> >>)
O2(k1, v1, k2, v2) == Obj(<< <<k1, v1>>, <<k2, v2>> >>)
O3(k1, v1, k2, v2, k3, v3) == Obj(<< <<k1, v1>>, <<k2, v2>>, <<k3, v3>> >>)

IsNullish(v) == v.t \in {"undefined", "null"}

\* JavaScript truthiness.
Truthy(v) ==
  CASE v.t \in {"undefined", "null"} -> FALSE
    [] v.t = "string" -> IF "s" \in DOMAIN v THEN v.s # "" ELSE TRUE
    [] v.t = "number" -> v.n # 0
    [] v.t = "boolean" -> v.b
    [] OTHER -> TRUE

\* a || b and a ?? b
Or(a, b) == IF Truthy(a) THEN a ELSE b
Nullish(a, b) == IF IsNullish(a) THEN b ELSE a

Lookup(o, k) ==
  IF \E i \in 1..Len(o) : o[i][1] = k
  THEN o[CHOOSE i \in 1..Len(o) : o[i][1] = k /\ \A j \in 1..(i-1) : o[j][1] # k][2]
  ELSE Undefined

\* v.k : a TypeError on null and undefined, undefined on a primitive or an array.
Prop(v, k) ==
  CASE IsNullish(v) -> TypeError
    [] v.t = "object" -> Lookup(v.o, k)
    [] OTHER -> Undefined

\* v?.k
OptProp(v, k) == IF IsNullish(v) THEN Undefined ELSE Prop(v, k)

\* v[0] on a truthy value
Index0(v) ==
  CASE v.t = "array" -> IF Len(v.a) > 0 THEN v.a[1] ELSE Undefined
    [] v.t = "object" -> Lookup(v.o, "0")
    [] v.t = "string" -> Str("c")
    [] OTHER -> Undefined

IsArray(v) == v.t = "array"

\* ------------------------------------------------- string conversions

\* String(n) of a number, String(b) of a boolean.
StringOf(v) ==
  CASE v.t = "number" -> Str(ToString(v.n))
    [] v.t = "boolean" -> Str(IF v.b THEN "true" ELSE "false")
    [] v.t = "Infinity" -> Str("Infinity")
    [] v.t = "NaN" -> Str("NaN")
    [] OTHER -> v

\* value.trim() is the empty string
TrimsToEmpty(s) == s \in {"", " ", "  "}

NaN == [t |-> "NaN"]
\* The number a JSON text such as 1e999 parses to.
Infinity == [t |-> "Infinity"]

\* typeof v === 'number'
IsNumber(v) == v.t \in {"number", "NaN", "Infinity"}

\* Number.isFinite(v)
IsFinite(v) == v.t = "number"

\* Number(s) of a string of the model.
NumberOf(s) ==
  CASE s = "42" -> Num(42)
    [] s = " 7 " -> Num(7)
    [] s = "0" -> Num(0)
    [] s = "1" -> Num(1)
    [] s = "1e999" -> Infinity
    [] TrimsToEmpty(s) -> Num(0)
    [] OTHER -> NaN

\* new Date(s).getTime() of a string of the model, in seconds. What the engine
\* makes of text that is a lone number is left out: it counts as no date.
DateParse(s) ==
  CASE s = "2024-01-01T00:00:00Z" -> Num(1704067200)
    [] s = "2024-01-01T00:00:00.000Z" -> Num(1704067200)
    [] s = "2024-01-01T00:00:30Z" -> Num(1704067230)
    [] s = "2024-01-01T00:00:30.000Z" -> Num(1704067230)
    [] s = "2024-01-01T00:01:00.000Z" -> Num(1704067260)
    [] s = "Mon, 01 Jan 2024 00:00:00 GMT" -> Num(1704067200)
    [] OTHER -> NaN

\* date.toISOString()
ToISOString(n) ==
  CASE n = 1704067200 -> Str("2024-01-01T00:00:00.000Z")
    [] n = 1704067230 -> Str("2024-01-01T00:00:30.000Z")
    [] n = 1704067260 -> Str("2024-01-01T00:01:00.000Z")

\* new Date().toISOString() at the time of the request
NowISO == Str("2024-01-01T00:01:00.000Z")

\* JSON.parse(text): SyntaxError unless the text is a serialization.
SyntaxError == [t |-> "SyntaxError"]

JSONparse(text) ==
  CASE text.t = "string" /\ "json" \in DOMAIN text -> text.json
    [] text.t = "string" /\ "s" \in DOMAIN text ->
         IF NumberOf(text.s) # NaN /\ ~TrimsToEmpty(text.s) THEN NumberOf(text.s) ELSE SyntaxError
    [] text.t \in {"number", "boolean"} -> text
    [] OTHER -> SyntaxError

\* --------------------------------------------------------- gateway client

\* What one fetch of GATEWAY_URL/tools/invoke ends in.
NetworkError(msg) == [kind |-> "exception", status |-> 0, body |-> Undefined, message |-> msg]
Http(status, body) == [kind |-> "response", status |-> status, body |-> body, message |-> ""]
\* No fetch was made.
NoFetch == [kind |-> "none", status |-> 0, body |-> Undefined, message |-> ""]

\* response.ok
ResponseOk(http) == http.status >= 200 /\ http.status <= 299

\* `${response.status} ${response.statusText}`
StatusLine(status) ==
  CASE status = 500 -> Str("500 Internal Server Error")
    [] status = 404 -> Str("404 Not Found")
    [] OTHER -> Template(<<Num(status)>>)

\* await response.json() inside try/catch: null when the body does not parse.
PayloadOrNull(http) == IF http.body = Unparsable THEN Null ELSE http.body

parseGatewayResult(result) ==
  IF ~Truthy(result) THEN result
  ELSE LET content == Prop(result, "content")
           text == IF Truthy(content) THEN OptProp(Index0(content), "text") ELSE Undefined
       IN IF Truthy(content) /\ Truthy(text)
          THEN IF JSONparse(text) = SyntaxError THEN result ELSE JSONparse(text)
          ELSE result

Failure(error, latencyMs, status) ==
  [ok |-> FALSE, result |-> Undefined, error |-> error, latencyMs |-> latencyMs, status |-> status]

Success(result, latencyMs, status) ==
  [ok |-> TRUE, result |-> result, error |-> Undefined, latencyMs |-> latencyMs, status |-> status]

\* The elapsed time Date.now() - startedAt of a fetch that returned a response.
Elapsed == Num(12)

invokeGateway_missingUrlOk(url, http) ==
  IF ~url THEN Success(Null, Undefined, Undefined)
  ELSE IF http.kind = "exception" THEN Failure(Str(http.message), Undefined, Undefined)
  ELSE IF ~ResponseOk(http)
       THEN Failure(Or(Or(OptProp(PayloadOrNull(http), "error"), OptProp(PayloadOrNull(http), "message")),
                       StatusLine(http.status)), Elapsed, Num(http.status))
       ELSE Success(parseGatewayResult(Nullish(OptProp(PayloadOrNull(http), "result"), PayloadOrNull(http))),
                    Elapsed, Num(http.status))

invokeGateway_messageFirst(url, http) ==
  IF ~url THEN Failure(Str("Missing GATEWAY_URL"), Undefined, Undefined)
  ELSE IF http.kind = "exception" THEN Failure(Str(http.message), Undefined, Undefined)
  ELSE IF ~ResponseOk(http)
       THEN Failure(Or(Or(OptProp(PayloadOrNull(http), "message"), OptProp(PayloadOrNull(http), "error")),
                       StatusLine(http.status)), Elapsed, Num(http.status))
       ELSE Success(parseGatewayResult(Nullish(OptProp(PayloadOrNull(http), "result"), PayloadOrNull(http))),
                    Elapsed, Num(http.status))

\* invokeGateway of the telemetry route: every outcome of the fetch is returned,
\* none is thrown.
invokeGateway(url, http) ==
  IF ~url THEN Failure(Str("Missing GATEWAY_URL"), Undefined, Undefined)
  ELSE IF http.kind = "exception" THEN Failure(Str(http.message), Undefined, Undefined)
  ELSE IF ~ResponseOk(http)
       THEN Failure(Or(Or(OptProp(PayloadOrNull(http), "error"), OptProp(PayloadOrNull(http), "message")),
                       StatusLine(http.status)), Elapsed, Num(http.status))
       ELSE Success(parseGatewayResult(Nullish(OptProp(PayloadOrNull(http), "result"), PayloadOrNull(http))),
                    Elapsed, Num(http.status))

isErrorResult(result) ==
  IF ~Truthy(result) \/ result.t # "object" THEN FALSE
  ELSE Truthy(Prop(result, "error"))

usable_ignoresErrorField(response) == response.ok

\* response.ok && !isErrorResult(response.result)
usable(response) == response.ok /\ ~isErrorResult(response.result)

\* ------------------------------------------------------------- coercions

coerceString(value) ==
  CASE IsNullish(value) -> Undefined
    [] value.t = "string" -> value
    [] IsNumber(value) \/ value.t = "boolean" -> StringOf(value)
    [] OTHER -> Undefined

coerceNumber_blankIsZero(value) ==
  CASE IsNullish(value) -> Undefined
    [] IsNumber(value) /\ IsFinite(value) -> value
    [] value.t = "string" /\ "s" \in DOMAIN value ->
         IF IsFinite(NumberOf(value.s)) THEN NumberOf(value.s) ELSE Undefined
    [] OTHER -> Undefined

coerceNumber(value) ==
  CASE IsNullish(value) -> Undefined
    [] IsNumber(value) /\ IsFinite(value) -> value
    [] value.t = "string" /\ "s" \in DOMAIN value /\ ~TrimsToEmpty(value.s) ->
         IF IsFinite(NumberOf(value.s)) THEN NumberOf(value.s) ELSE Undefined
    [] OTHER -> Undefined

\* new Date(candidate).getTime() of a string value
GetTime(candidate) == IF "s" \in DOMAIN candidate THEN DateParse(candidate.s) ELSE NaN

coerceTimestamp(value) ==
  LET candidate == coerceString(value)
  IN IF ~Truthy(candidate) THEN Undefined
     ELSE IF GetTime(candidate) = NaN THEN Undefined
     ELSE ToISOString(GetTime(candidate).n)

normalizeArray_dataFirst(result) ==
  IF IsArray(result) THEN result
  ELSE IF ~Truthy(result) THEN Arr(<<>>)
  ELSE LET candidates == <<"data", "records", "queues", "processes", "events", "jobs", "runs", "items", "sessions">>
           hits == {i \in 1..Len(candidates) : IsArray(Prop(result, candidates[i]))}
       IN IF hits = {} THEN Arr(<<>>)
          ELSE Prop(result, candidates[CHOOSE i \in hits : \A j \in hits : i <= j])

normalizeArray(result) ==
  IF IsArray(result) THEN result
  ELSE IF ~Truthy(result) THEN Arr(<<>>)
  ELSE LET candidates == <<"sessions", "items", "runs", "jobs", "events", "processes", "queues", "records", "data">>
           hits == {i \in 1..Len(candidates) : IsArray(Prop(result, candidates[i]))}
       IN IF hits = {} THEN Arr(<<>>)
          ELSE Prop(result, candidates[CHOOSE i \in hits : \A j \in hits : i <= j])

\* array.map(F): a TypeError raised by F for one element ends the map;
\* a value that is no array has no map method.
MapArray(array, F(_)) ==
  IF ~IsArray(array) THEN TypeError
  ELSE LET r == [i \in 1..Len(array.a) |-> F(array.a[i])]
       IN IF \E i \in 1..Len(array.a) : r[i] = TypeError THEN TypeError ELSE Arr(r)

\* `${prefix}-${Math.random()}`
RandomId(prefix) == Template(<<Str(prefix), Str("Math.random()")>>)

\* ------------------------------------------------------------ normalizers

normalizeSession_emptyKey(session) ==
  IF IsNullish(session) THEN TypeError
  ELSE LET updatedAt ==
             Or(Or(Or(coerceTimestamp(Prop(session, "updated_at")),
                      coerceTimestamp(Prop(session, "updatedAt"))),
                   coerceTimestamp(Prop(session, "last_activity"))),
                coerceTimestamp(Prop(session, "lastActivity")))
       IN [key |-> Or(Or(Or(coerceString(Prop(session, "key")),
                            coerceString(Prop(session, "session_id"))),
                         coerceString(Prop(session, "id"))),
                      Str("")),
           label |-> coerceString(Prop(session, "label")),
           channel |-> coerceString(Prop(session, "channel")),
           kind |-> coerceString(Prop(session, "kind")),
           model |-> coerceString(Prop(session, "model")),
           updatedAt |-> IF Truthy(updatedAt) THEN GetTime(updatedAt) ELSE Undefined,
           totalTokens |-> Or(coerceNumber(Prop(session, "total_tokens")),
                              coerceNumber(Prop(session, "totalTokens"))),
           thinkingLevel |-> Or(coerceString(Prop(session, "thinking_level")),
                                coerceString(Prop(session, "thinkingLevel"))),
           abortedLastRun |-> Bool(Truthy(Or(Prop(session, "abortedLastRun"),
                                             Prop(session, "aborted_last_run")))),
           turns |-> coerceNumber(Prop(session, "turns")),
           lastActivity |-> updatedAt]

\* The body of the map callback of normalizeSessions for one list element.
normalizeSession(session) ==
  IF IsNullish(session) THEN TypeError
  ELSE LET updatedAt ==
             Or(Or(Or(coerceTimestamp(Prop(session, "updated_at")),
                      coerceTimestamp(Prop(session, "updatedAt"))),
                   coerceTimestamp(Prop(session, "last_activity"))),
                coerceTimestamp(Prop(session, "lastActivity")))
       IN [key |-> Or(Or(Or(coerceString(Prop(session, "key")),
                            coerceString(Prop(session, "session_id"))),
                         coerceString(Prop(session, "id"))),
                      Str("unknown")),
           label |-> coerceString(Prop(session, "label")),
           channel |-> coerceString(Prop(session, "channel")),
           kind |-> coerceString(Prop(session, "kind")),
           model |-> coerceString(Prop(session, "model")),
           updatedAt |-> IF Truthy(updatedAt) THEN GetTime(updatedAt) ELSE Undefined,
           totalTokens |-> Or(coerceNumber(Prop(session, "total_tokens")),
                              coerceNumber(Prop(session, "totalTokens"))),
           thinkingLevel |-> Or(coerceString(Prop(session, "thinking_level")),
                                coerceString(Prop(session, "thinkingLevel"))),
           abortedLastRun |-> Bool(Truthy(Or(Prop(session, "abortedLastRun"),
                                             Prop(session, "aborted_last_run")))),
           turns |-> coerceNumber(Prop(session, "turns")),
           lastActivity |-> updatedAt]

\* The list normalizeSessions maps over.
sessionsOf(result) ==
  Or(Or(OptProp(result, "sessions"), OptProp(OptProp(result, "details"), "sessions")), Arr(<<>>))

normalizeSessions(result) == MapArray(sessionsOf(result), normalizeSession)

\* The age below which getAgentState takes a session for active. The clock of
\* the model counts seconds.
RecentMs == 30000

getAgentState_inclusive(session, now) ==
  LET lastUpdate == Or(session.updatedAt, Num(0))
      isRecent == now - lastUpdate.n <= RecentMs \div 1000
  IN IF isRecent /\ Truthy(session.thinkingLevel) THEN Str("thinking")
     ELSE IF isRecent THEN Str("executing")
     ELSE Str("idle")

\* getAgentState of the page for a session of the snapshot, Date.now() being now.
getAgentState(session, now) ==
  LET lastUpdate == Or(session.updatedAt, Num(0))
      isRecent == now - lastUpdate.n < RecentMs \div 1000
  IN IF isRecent /\ Truthy(session.thinkingLevel) THEN Str("thinking")
     ELSE IF isRecent THEN Str("executing")
     ELSE Str("idle")

\* The map callback of normalizeCronJobs (current telemetry route).
normalizeCronJob(job) ==
  IF IsNullish(job) THEN TypeError
  ELSE LET state == Or(Prop(job, "state"), Obj(<<>>))
       IN [id |-> Or(coerceString(Prop(job, "id")), RandomId("job")),
           name |-> Or(coerceString(Prop(job, "name")), Str("cron-job")),
           schedule |-> Or(coerceString(OptProp(Prop(job, "schedule"), "expr")),
                           coerceString(OptProp(Prop(job, "schedule"), "kind"))),
           lastRun |-> Or(coerceTimestamp(Prop(state, "lastRunAtMs")),
                          coerceTimestamp(Prop(job, "updatedAtMs"))),
           lastStatus |-> Or(coerceString(Prop(state, "lastStatus")), Str("unknown")),
           lastFailure |-> coerceString(Prop(state, "lastError"))]

normalizeCronJobs(result) ==
  MapArray(Or(OptProp(result, "jobs"), Arr(<<>>)), normalizeCronJob)

\* The map callback of normalizeCronRuns (current telemetry route).
normalizeCronRun(run) ==
  IF IsNullish(run) THEN TypeError
  ELSE [id |-> Or(coerceString(Prop(run, "id")), RandomId("run")),
        jobId |-> Or(coerceString(Prop(run, "jobId")), coerceString(Prop(run, "name"))),
        status |-> Or(coerceString(Prop(run, "status")), Str("unknown")),
        startedAt |-> Or(coerceTimestamp(Prop(run, "startedAtMs")),
                         coerceTimestamp(Prop(run, "createdAtMs"))),
        finishedAt |-> coerceTimestamp(Prop(run, "finishedAtMs")),
        error |-> coerceString(Prop(run, "error"))]

normalizeCronRuns(result) ==
  MapArray(Or(OptProp(result, "runs"), Arr(<<>>)), normalizeCronRun)

normalizeProcess(record) ==
  IF IsNullish(record) THEN TypeError
  ELSE [id |-> Or(Or(coerceString(Prop(record, "id")), coerceString(Prop(record, "pid"))),
                  RandomId("proc")),
        name |-> Or(Or(coerceString(Prop(record, "name")), coerceString(Prop(record, "command"))),
                    Str("process")),
        status |-> Or(Or(coerceString(Prop(record, "status")), coerceString(Prop(record, "state"))),
                      Str("unknown")),
        cpu |-> Or(coerceNumber(Prop(record, "cpu")), coerceNumber(Prop(record, "cpu_pct"))),
        memory |-> Or(coerceNumber(Prop(record, "memory")), coerceNumber(Prop(record, "mem_mb")))]

normalizeProcesses(result) == MapArray(normalizeArray(result), normalizeProcess)

\* The map callback of normalizeCronJobs in the earlier telemetry route.
normalizeCronJobV1(record) ==
  IF IsNullish(record) THEN TypeError
  ELSE [id |-> Or(Or(Or(coerceString(Prop(record, "id")), coerceString(Prop(record, "job_id"))),
                     coerceString(Prop(record, "name"))),
                  RandomId("job")),
        name |-> Or(Or(coerceString(Prop(record, "name")), coerceString(Prop(record, "job"))),
                    Str("cron-job")),
        schedule |-> Or(Or(coerceString(Prop(record, "schedule")), coerceString(Prop(record, "cron"))),
                        coerceString(Prop(record, "expression"))),
        lastRun |-> Or(Or(coerceTimestamp(Prop(record, "last_run")),
                          coerceTimestamp(Prop(record, "lastRun"))),
                       coerceTimestamp(Prop(record, "updated_at"))),
        lastStatus |-> Or(coerceString(Prop(record, "status")), coerceString(Prop(record, "last_status"))),
        lastFailure |-> Or(coerceString(Prop(record, "last_failure")),
                           coerceString(Prop(record, "lastError")))]

normalizeCronJobsV1(result) == MapArray(normalizeArray(result), normalizeCronJobV1)

\* The map callback of normalizeCronRuns in the earlier telemetry route.
normalizeCronRunV1(record) ==
  IF IsNullish(record) THEN TypeError
  ELSE [id |-> Or(Or(coerceString(Prop(record, "id")), coerceString(Prop(record, "run_id"))),
                  RandomId("run")),
        jobId |-> Or(Or(coerceString(Prop(record, "job_id")), coerceString(Prop(record, "job"))),
                     coerceString(Prop(record, "name"))),
        status |-> Or(Or(coerceString(Prop(record, "status")), coerceString(Prop(record, "state"))),
                      Str("unknown")),
        startedAt |-> Or(Or(coerceTimestamp(Prop(record, "started_at")),
                            coerceTimestamp(Prop(record, "startedAt"))),
                         coerceTimestamp(Prop(record, "timestamp"))),
        finishedAt |-> Or(Or(coerceTimestamp(Prop(record, "finished_at")),
                             coerceTimestamp(Prop(record, "completed_at"))),
                          coerceTimestamp(Prop(record, "finishedAt"))),
        error |-> Or(coerceString(Prop(record, "error")), coerceString(Prop(record, "message")))]

normalizeCronRunsV1(result) == MapArray(normalizeArray(result), normalizeCronRunV1)

normalizeQueue(record) ==
  IF IsNullish(record) THEN TypeError
  ELSE [id |-> Or(Or(coerceString(Prop(record, "id")), coerceString(Prop(record, "name"))),
                  RandomId("queue")),
        name |-> Or(Or(coerceString(Prop(record, "name")), coerceString(Prop(record, "queue"))),
                    Str("queue")),
        direction |-> coerceString(Prop(record, "direction")),
        depth |-> Or(Or(coerceNumber(Prop(record, "depth")), coerceNumber(Prop(record, "size"))),
                     coerceNumber(Prop(record, "count"))),
        inflight |-> Or(coerceNumber(Prop(record, "inflight")), coerceNumber(Prop(record, "in_progress"))),
        updatedAt |-> Or(coerceTimestamp(Prop(record, "updated_at")),
                         coerceTimestamp(Prop(record, "last_updated")))]

normalizeQueues(result) == MapArray(normalizeArray(result), normalizeQueue)

normalizeEvent(record) ==
  IF IsNullish(record) THEN TypeError
  ELSE [id |-> Or(Or(coerceString(Prop(record, "id")), coerceString(Prop(record, "event_id"))),
                  RandomId("evt")),
        level |-> Or(Or(coerceString(Prop(record, "level")), coerceString(Prop(record, "severity"))),
                     Str("info")),
        message |-> Or(Or(Or(coerceString(Prop(record, "message")), coerceString(Prop(record, "summary"))),
                          coerceString(Prop(record, "detail"))),
                       Str("event")),
        source |-> Or(coerceString(Prop(record, "source")), coerceString(Prop(record, "origin"))),
        timestamp |-> Or(Or(coerceTimestamp(Prop(record, "timestamp")),
                            coerceTimestamp(Prop(record, "created_at"))),
                         NowISO)]

normalizeEvents(result) == MapArray(normalizeArray(result), normalizeEvent)

normalizeUsageItem(record) ==
  IF IsNullish(record) THEN TypeError
  ELSE [id |-> Or(Or(coerceString(Prop(record, "id")), coerceString(Prop(record, "model"))),
                  RandomId("usage")),
        model |-> Or(Or(coerceString(Prop(record, "model")), coerceString(Prop(record, "name"))),
                     Str("model")),
        tokens |-> Or(Or(coerceNumber(Prop(record, "tokens")), coerceNumber(Prop(record, "total_tokens"))),
                      coerceNumber(Prop(record, "usage"))),
        cost |-> Or(Or(coerceNumber(Prop(record, "cost")), coerceNumber(Prop(record, "total_cost"))),
                    coerceNumber(Prop(record, "usd"))),
        window |-> Or(Or(coerceString(Prop(record, "window")), coerceString(Prop(record, "period"))),
                      coerceString(Prop(record, "range")))]

normalizeUsage(result) == MapArray(normalizeArray(result), normalizeUsageItem)

\* ------------------------------------------------------ history normalizer

\* array.slice(-n)
SliceLast(a, n) == IF Len(a) <= n THEN a ELSE SubSeq(a, Len(a) - n + 1, Len(a))

\* texts.join(' ') is the empty string
JoinsToEmpty(texts) == \A i \in 1..Len(texts) : texts[i].t = "array" /\ texts[i].a = <<>>

\* text.slice(0, n)
SliceText(text, n) ==
  IF "s" \in DOMAIN text /\ Len(text.s) > n THEN [t |-> "string", head |-> n, of |-> text.s]
  ELSE text

TerminalItem(type, label, detail, role, timestamp) ==
  [id |-> Template(<<label, timestamp, Str("Math.random()")>>),
   type |-> type, source |-> label, detail |-> SliceText(detail, 260), role |-> role,
   timestamp |-> timestamp]

\* The item pushed for one chunk of an entry's content array, if any.
chunkItems(chunk, label, role, timestamp) ==
  IF Prop(chunk, "type") = Str("toolCall")
  THEN << TerminalItem("tool_call", label,
            Template(<<Or(Prop(chunk, "name"), Str("tool")),
                       IF Truthy(Prop(chunk, "arguments")) THEN JsonText(Prop(chunk, "arguments")) ELSE Str("")>>),
            role, timestamp) >>
  ELSE IF Prop(chunk, "type") = Str("toolResult")
  THEN << TerminalItem("tool_result", label,
            Template(<<Or(Prop(chunk, "name"), Str("tool")),
                       IF Prop(chunk, "content").t = "string" THEN Prop(chunk, "content")
                       ELSE JsonText(Nullish(Prop(chunk, "content"), Str("")))>>),
            role, timestamp) >>
  ELSE <<>>

RECURSIVE Concat(_)
Concat(seqs) == IF seqs = <<>> THEN <<>> ELSE Head(seqs) \o Concat(Tail(seqs))

\* One pass of the loop either pushes items or raises.
Raised == [raised |-> TRUE, items |-> <<>>]
Pushed(items) == [raised |-> FALSE, items |-> items]

entryItems_firstRuleOnly(entry, record, sessionLabel) ==
  IF IsNullish(entry) THEN Raised
  ELSE LET timestamp == Or(coerceTimestamp(Prop(entry, "timestamp")), NowISO)
           role == Or(coerceString(Prop(entry, "role")), Str("assistant"))
           label == Or(Or(sessionLabel, coerceString(OptProp(record, "label"))), Str("session"))
           content == Prop(entry, "content")
           contentArray == IF IsArray(content) THEN content.a ELSE <<>>
           texts == SelectSeq([i \in 1..Len(contentArray) |-> OptProp(contentArray[i], "text")], Truthy)
           textContent == IF content.t = "string" THEN content
                          ELSE IF JoinsToEmpty(texts) THEN Str("") ELSE Template(texts)
           toolCalls == IF IsArray(Prop(entry, "tool_calls")) THEN Prop(entry, "tool_calls").a ELSE <<>>
           toolNames == [i \in 1..Len(toolCalls) |->
                           Or(OptProp(OptProp(toolCalls[i], "function"), "name"), Str("unknown"))]
           fromToolCalls == IF Len(toolCalls) > 0
                            THEN << TerminalItem("tool_call", label,
                                      Template(<<Str("tools: ")>> \o toolNames), role, timestamp) >>
                            ELSE <<>>
           fromChunks == Concat([i \in 1..Len(contentArray) |->
                                   chunkItems(contentArray[i], label, role, timestamp)])
           fromSystem == IF role = Str("system") /\ Truthy(textContent)
                         THEN << TerminalItem("system", label, textContent, role, timestamp) >>
                         ELSE <<>>
       IN IF \E i \in 1..Len(contentArray) : IsNullish(contentArray[i]) THEN Raised
          ELSE Pushed(IF fromToolCalls # <<>> THEN fromToolCalls
                      ELSE IF fromChunks # <<>> THEN fromChunks ELSE fromSystem)

\* The items one pass of the loop of normalizeHistory pushes for `entry`;
\* a TypeError when the entry or one of its content chunks is null.
entryItems(entry, record, sessionLabel) ==
  IF IsNullish(entry) THEN Raised
  ELSE LET timestamp == Or(coerceTimestamp(Prop(entry, "timestamp")), NowISO)
           role == Or(coerceString(Prop(entry, "role")), Str("assistant"))
           label == Or(Or(sessionLabel, coerceString(OptProp(record, "label"))), Str("session"))
           content == Prop(entry, "content")
           contentArray == IF IsArray(content) THEN content.a ELSE <<>>
           texts == SelectSeq([i \in 1..Len(contentArray) |-> OptProp(contentArray[i], "text")], Truthy)
           textContent == IF content.t = "string" THEN content
                          ELSE IF JoinsToEmpty(texts) THEN Str("") ELSE Template(texts)
           toolCalls == IF IsArray(Prop(entry, "tool_calls")) THEN Prop(entry, "tool_calls").a ELSE <<>>
           toolNames == [i \in 1..Len(toolCalls) |->
                           Or(OptProp(OptProp(toolCalls[i], "function"), "name"), Str("unknown"))]
           fromToolCalls == IF Len(toolCalls) > 0
                            THEN << TerminalItem("tool_call", label,
                                      Template(<<Str("tools: ")>> \o toolNames), role, timestamp) >>
                            ELSE <<>>
           fromChunks == Concat([i \in 1..Len(contentArray) |->
                                   chunkItems(contentArray[i], label, role, timestamp)])
           fromSystem == IF role = Str("system") /\ Truthy(textContent)
                         THEN << TerminalItem("system", label, textContent, role, timestamp) >>
                         ELSE <<>>
       IN IF \E i \in 1..Len(contentArray) : IsNullish(contentArray[i]) THEN Raised
          ELSE Pushed(fromToolCalls \o fromChunks \o fromSystem)

\* items.sort((a, b) => time(b) - time(a)): stable, newest first.
RECURSIVE InsertByTime(_, _)
InsertByTime(sorted, item) ==
  IF sorted = <<>> THEN <<item>>
  ELSE IF GetTime(Head(sorted).timestamp).n >= GetTime(item.timestamp).n
       THEN <<Head(sorted)>> \o InsertByTime(Tail(sorted), item)
       ELSE <<item>> \o sorted

RECURSIVE SortByTime(_)
SortByTime(items) ==
  IF items = <<>> THEN <<>>
  ELSE InsertByTime(SortByTime(SubSeq(items, 1, Len(items) - 1)), items[Len(items)])

\* The list normalizeHistory iterates over.
historyOf(result) ==
  Or(Or(OptProp(result, "history"), OptProp(result, "messages")), Arr(<<>>))

normalizeHistory(result, sessionLabel) ==
  LET history == historyOf(result)
  IN IF history.t = "string" THEN Arr(<<>>)
     ELSE IF ~IsArray(history) THEN TypeError
     ELSE LET entries == SliceLast(history.a, 60)
              per == [i \in 1..Len(entries) |-> entryItems(entries[i], result, sessionLabel)]
          IN IF \E i \in 1..Len(entries) : per[i].raised THEN TypeError
             ELSE Arr(SortByTime(Concat([i \in 1..Len(entries) |-> per[i].items])))

\* ------------------------------------------------- what the gateway returns

\* All sequences over S of length at most n.
SeqsUpTo(S, n) == UNION {[1..k -> S] : k \in 0..n}

\* A tool result delivered as {result: R}, and as {result: {content: [{type, text}]}}
\* with the serialization of R as text.
Wrapped(R) == O1("result", R)
Enveloped(R) == O1("result", O1("content", Arr(<< O2("type", Str("text"), "text", JsonText(R)) >>)))

\* Fetches that end without a usable result.
FailedFetches ==
  { NetworkError("fetch failed"),
    Http(500, O1("error", Str("boom"))),
    Http(500, O1("message", Str("overloaded"))),
    Http(404, Unparsable),
    Http(200, Wrapped(O1("error", Str("tool failed")))) }

RawMain == O1("key", Str("agent:main:main"))

RawSessionPool ==
  { O2("session_id", Str("agent:main:main"), "created_at", Str("2024-01-01T00:00:00Z")),
    O2("key", Str("agent:other:x"), "label", Str("worker")),
    O3("key", Str("agent:main:main:thread:1"), "updated_at", Str("2024-01-01T00:00:30Z"),
       "thinking_level", Str("high")),
    O2("key", Str("agent:main:subagent:7"), "total_tokens", Str("42")) }

SessionsListResults ==
  { O1("sessions", Arr(l)) : l \in SeqsUpTo(RawSessionPool, MaxSessions) }
  \cup { O1("details", O1("sessions", Arr(<<RawMain>>))),
         O2("error", Str("denied"), "sessions", Arr(<<RawMain>>)),
         Obj(<<>>),
         O1("sessions", Obj(<<>>)),
         O1("sessions", Str("none")),
         O1("sessions", Arr(<< O1("label", Str("nameless")) >>)),
         O1("sessions", Arr(<<Null>>)) }

SessionsListFetches ==
  FailedFetches
  \cup { Http(200, Unparsable), Http(200, Arr(<<RawMain>>)), Http(200, O1("sessions", Arr(<<RawMain>>))),
         Http(500, O1("error", O1("code", Num(500)))) }
  \cup { Http(200, Wrapped(R)) : R \in SessionsListResults }
  \cup { Http(200, Enveloped(O1("sessions", Arr(<<RawMain>>)))) }

HistoryToolCalls ==
  O3("role", Str("assistant"), "timestamp", Str("2024-01-01T00:00:00Z"),
     "tool_calls", Arr(<< O1("function", O1("name", Str("exec"))) >>))
HistorySystem ==
  O3("role", Str("system"), "timestamp", Str("2024-01-01T00:00:30Z"), "content", Str("restarted"))
HistoryChunks ==
  O2("role", Str("assistant"),
     "content", Arr(<< O2("type", Str("toolCall"), "name", Str("read")),
                       O3("type", Str("toolResult"), "name", Str("read"), "content", Str("ok")) >>))
HistoryPlain == O2("role", Str("user"), "content", Str("hello"))

SessionsHistoryFetches ==
  FailedFetches
  \cup { Http(200, Unparsable),
         Http(200, Wrapped(O1("history", Arr(<<HistoryToolCalls, HistorySystem>>)))),
         Http(200, Enveloped(O1("messages", Arr(<<HistoryChunks, HistoryPlain>>)))),
         Http(200, Wrapped(O1("history", Str("none")))),
         Http(200, Wrapped(O1("history", Num(5)))),
         Http(200, Wrapped(O1("history", Arr(<<Null>>)))),
         Http(200, Wrapped(O1("messages", Arr(<< O1("content", Arr(<<Null>>)) >>)))) }

SessionStatusFetches ==
  FailedFetches \cup { Http(200, Wrapped(O1("model", Str("opus")))), Http(200, Unparsable) }

RawJob ==
  O3("id", Str("j1"), "schedule", O1("expr", Str("* * * * *")),
     "state", O2("lastStatus", Str("ok"), "lastRunAtMs", Num(1704067200)))

CronListFetches ==
  FailedFetches
  \cup { Http(200, Enveloped(O1("jobs", Arr(<<RawJob>>)))),
         Http(200, Wrapped(O1("jobs", Arr(<<>>)))),
         Http(200, Wrapped(O1("jobs", Obj(<<>>)))),
         Http(200, Wrapped(O1("jobs", Arr(<<Null>>)))) }

CronRunsFetches ==
  FailedFetches
  \cup { Http(200, Wrapped(O1("runs", Arr(<< O2("id", Str("r1"), "status", Str("ok")) >>)))),
         Http(200, Enveloped(O1("runs", Arr(<< O2("id", Str("r2"), "name", Str("j1")) >>)))),
         Http(200, Wrapped(O1("runs", Num(7)))),
         Http(200, Wrapped(O1("runs", Arr(<<Null>>)))) }

\* The earlier telemetry route is explored with fewer replies to its first three calls.
V1SessionsListFetches == { Http(500, Unparsable), Http(200, Wrapped(O1("sessions", Arr(<<RawMain>>)))) }
V1SessionsHistoryFetches ==
  { Http(500, Unparsable), Http(200, Wrapped(O1("history", Arr(<<HistoryToolCalls>>)))) }
V1SessionStatusFetches == { Http(200, Wrapped(O1("model", Str("opus")))) }

\* What a tool of a firstAvailable list returns.
FirstAvailableFetches ==
  { NetworkError("fetch failed"), Http(500, Unparsable),
    Http(200, O1("result", O1("error", Str("unknown tool")))),
    Http(200, Wrapped(O1("items", Arr(<< O2("id", Str("a1"), "name", Str("alpha")) >>)))) }

\* string.includes(':main:main') for the strings of the model.
includesMainMain(key) ==
  "s" \in DOMAIN key /\ key.s \in {"agent:main:main", "agent:main:main:thread:1"}

\* ------------------------------------------------------------------ state

VARIABLES
  gatewayUrl,        \* GATEWAY_URL is configured
  route,             \* the route handler serving the current request
  pc,                \* the handler's position
  calls,             \* the invokeGateway calls of the request, in order
  fetches,           \* the number of network requests of the request
  lastReply,         \* what the call that returned last returned, until the next call
  warnings,
  sessionsResponse,
  gatewayAvailable,
  sessions,
  mainSession,
  terminalItems,
  sessionStatus,
  cronJobsPayload,
  cronRunsPayload,
  loopIndex,         \* the position of a for loop over a list of tools or actions
  category,          \* earlier telemetry route: the category firstAvailable is looking up
  payloads,          \* earlier telemetry route: what firstAvailable returned, per category
  processes,
  request,           \* the body of the incoming request
  jobId,
  sessionId,         \* background route: the main session of fallbackFromHistory
  response,          \* the HTTP response of the handler
  given,             \* the arguments of a function applied on its own
  returned,          \* what the function applied to them returned
  dashboard,         \* the Dashboard component: initial, mounted or unmounted
  interval,          \* the interval timer of the polling effect is set
  clock,             \* milliseconds since the component mounted
  requests,          \* the fetchTelemetry calls of the page, in the order they started
  lastArrived,       \* the request whose successful response arrived last
  telemetry,         \* the snapshot displayed
  connected,
  lastUpdate,
  pageError,         \* the state named error of the component
  reruns,            \* the handleCronRun calls of the page, in the order they started
  cronAction,
  cronActionTimers   \* the setTimeout callbacks that will clear cronAction

vars == <<gatewayUrl, route, pc, calls, fetches, lastReply, warnings, sessionsResponse, gatewayAvailable,
          sessions, mainSession, terminalItems, sessionStatus, cronJobsPayload, cronRunsPayload,
          loopIndex, category, payloads, processes, request, jobId, sessionId, response,
          given, returned, dashboard, interval, clock, requests, lastArrived, telemetry, connected,
          lastUpdate, pageError, reruns, cronAction, cronActionTimers>>

\* The state of the page in the browser.
page == <<dashboard, interval, clock, requests, lastArrived, telemetry, connected, lastUpdate, pageError, reruns,
          cronAction, cronActionTimers>>

\* What no route handler changes: the configuration, the functions applied on
\* their own and the page.
environment == <<gatewayUrl, given, returned, page>>

\* The gateway client's record of the request.
client == <<calls, fetches, lastReply>>

\* The locals of the other handlers.
otherLocals == <<category, payloads, processes, request, jobId, sessionId>>

telemetryLocals == <<warnings, sessionsResponse, gatewayAvailable, sessions, mainSession,
                     terminalItems, sessionStatus, cronJobsPayload, cronRunsPayload, loopIndex>>

NoResponse == [status |-> 0, body |-> Undefined]
\* An exception that leaves the handler is answered by the framework with a 500.
Uncaught(error) == [status |-> 500, body |-> Undefined, error |-> error]

\* How the fetch of a call ended, as far as the transport goes.
Transport(http) ==
  IF http.kind = "none" THEN "none"
  ELSE IF http.kind = "exception" THEN "exception"
  ELSE IF ResponseOk(http) THEN "2xx" ELSE "non-2xx"

NoReply == [ok |-> FALSE, result |-> [t |-> "none"], transport |-> "none"]

\* No handler is serving a request.
HandlersIdle ==
  /\ route = "none"
  /\ pc = "idle"
  /\ calls = <<>>
  /\ fetches = 0
  /\ lastReply = NoReply
  /\ warnings = <<>>
  /\ sessionsResponse = Undefined
  /\ gatewayAvailable = FALSE
  /\ sessions = Arr(<<>>)
  /\ mainSession = Undefined
  /\ terminalItems = Arr(<<>>)
  /\ sessionStatus = Null
  /\ cronJobsPayload = Null
  /\ cronRunsPayload = Null
  /\ loopIndex = 0
  /\ category = 0
  /\ payloads = <<>>
  /\ processes = Arr(<<>>)
  /\ request = Undefined
  /\ jobId = Undefined
  /\ sessionId = Null
  /\ response = NoResponse

\* No function is applied on its own.
NotGiven == [to |-> "none"]
NotReturned == [by |-> "none"]

\* The page before the Dashboard component mounts: the initial values of useState.
PageInitial ==
  /\ dashboard = "initial"
  /\ interval = FALSE
  /\ clock = 0
  /\ requests = <<>>
  /\ lastArrived = 0
  /\ telemetry = Null
  /\ connected = FALSE
  /\ lastUpdate = Null
  /\ pageError = Null
  /\ reruns = <<>>
  /\ cronAction = Null
  /\ cronActionTimers = 0

Init ==
  /\ gatewayUrl \in BOOLEAN
  /\ HandlersIdle
  /\ given = NotGiven
  /\ returned = NotReturned
  /\ PageInitial

Invoke_refetching(tool, args) ==
  /\ calls' = Append(calls, [tool |-> tool, args |-> args, outcome |-> "pending"])
  /\ fetches' = IF gatewayUrl THEN fetches + (IF fetches = 0 THEN 1 ELSE 2) ELSE fetches
  /\ lastReply' = NoReply

\* invokeGateway(tool, args) is entered: a fetch goes out when the URL is configured.
Invoke(tool, args) ==
  /\ calls' = Append(calls, [tool |-> tool, args |-> args, outcome |-> "pending"])
  /\ fetches' = IF gatewayUrl THEN fetches + 1 ELSE fetches
  /\ lastReply' = NoReply

\* What the pending fetch can end in.
Fetched(outcomes) == IF gatewayUrl THEN outcomes ELSE {NoFetch}

\* The pending call has returned and the caller took or dropped its result.
Settled(http, r, taken) ==
  /\ calls' = [calls EXCEPT ![Len(calls)].outcome = IF taken THEN "accepted" ELSE "rejected"]
  /\ lastReply' = [ok |-> r.ok, result |-> r.result, transport |-> Transport(http)]

\* The handler ends with `error` thrown out of it.
Throw(error) ==
  /\ pc' = "thrown"
  /\ response' = Uncaught(error)

\* A warning of the telemetry routes: what is unavailable and the text after it.
Warning(about, text) == [about |-> about, text |-> text]

\* --------------------------------------------- GET /api/telemetry (current)

mainSessionOf_first(list) == IF Len(list.a) > 0 THEN list.a[1] ELSE Undefined

\* sessions.find((session) => session.key.includes(':main:main')) || sessions[0]
mainSessionOf(list) ==
  LET hits == {i \in 1..Len(list.a) : includesMainMain(list.a[i].key)}
  IN IF hits # {} THEN list.a[CHOOSE i \in hits : \A j \in hits : i <= j]
     ELSE IF Len(list.a) > 0 THEN list.a[1] ELSE Undefined

\* mainSession?.key
mainKey == IF mainSession = Undefined THEN Undefined ELSE mainSession.key

\* gatewayAvailable ? normalizeSessions(sessionsResponse.result) : []
sessionsAfter(available, r) == IF available THEN normalizeSessions(r.result) ELSE Arr(<<>>)

TelemetryStart ==
  /\ pc = "idle"
  /\ route' = "telemetry"
  /\ pc' = "await_sessions_list"
  /\ Invoke("sessions_list", Obj(<<>>))
  /\ UNCHANGED <<environment, otherLocals, telemetryLocals, response>>

\* sessions_list returns: gatewayAvailable, sessions, the first warning, mainSession.
SessionsListReturns ==
  /\ pc = "await_sessions_list"
  /\ \E http \in Fetched(IF route = "telemetry" THEN SessionsListFetches ELSE V1SessionsListFetches) :
       LET r == invokeGateway(gatewayUrl, http)
           available == usable(r)
           list == sessionsAfter(available, r)
       IN /\ Settled(http, r, available)
          /\ sessionsResponse' = r
          /\ gatewayAvailable' = available
          /\ warnings' = IF available THEN warnings
                         ELSE Append(warnings, Warning("sessions_list", r.error))
          /\ IF list = TypeError
             THEN /\ Throw("TypeError")
                  /\ UNCHANGED <<sessions, mainSession>>
             ELSE /\ sessions' = list
                  /\ mainSession' = mainSessionOf(list)
                  /\ pc' = "terminal_feed"
                  /\ UNCHANGED response
  /\ UNCHANGED <<environment, otherLocals, route, fetches, terminalItems, sessionStatus, cronJobsPayload,
                 cronRunsPayload, loopIndex>>

\* if (mainSession?.key) invoke sessions_history, else warn.
TerminalFeed ==
  /\ pc = "terminal_feed"
  /\ IF Truthy(mainKey)
     THEN /\ Invoke("sessions_history", O2("sessionKey", mainKey, "limit", Num(40)))
          /\ pc' = "await_sessions_history"
          /\ UNCHANGED warnings
     ELSE /\ warnings' = Append(warnings, Warning("terminal feed", Str("No sessions available for terminal feed")))
          /\ pc' = "session_status"
          /\ UNCHANGED client
  /\ UNCHANGED <<environment, otherLocals, route, sessionsResponse, gatewayAvailable, sessions, mainSession,
                 terminalItems, sessionStatus, cronJobsPayload, cronRunsPayload, loopIndex, response>>

SessionsHistoryReturns ==
  /\ pc = "await_sessions_history"
  /\ \E http \in Fetched(IF route = "telemetry" THEN SessionsHistoryFetches ELSE V1SessionsHistoryFetches) :
       LET r == invokeGateway(gatewayUrl, http)
           items == normalizeHistory(r.result, Or(mainSession.label, mainSession.key))
       IN /\ Settled(http, r, usable(r))
          /\ IF usable(r)
             THEN /\ UNCHANGED warnings
                  /\ IF items = TypeError
                     THEN Throw("TypeError") /\ UNCHANGED terminalItems
                     ELSE /\ terminalItems' = items
                          /\ pc' = "session_status"
                          /\ UNCHANGED response
             ELSE /\ warnings' = Append(warnings, Warning("terminal feed", Str("sessions_history unavailable for terminal feed")))
                  /\ pc' = "session_status"
                  /\ UNCHANGED <<terminalItems, response>>
  /\ UNCHANGED <<environment, otherLocals, route, fetches, sessionsResponse, gatewayAvailable, sessions, mainSession,
                 sessionStatus, cronJobsPayload, cronRunsPayload, loopIndex>>

\* if (mainSession?.key) invoke session_status; nothing otherwise.
SessionStatus ==
  /\ pc = "session_status"
  /\ IF Truthy(mainKey)
     THEN /\ Invoke("session_status", O1("sessionKey", mainKey))
          /\ pc' = "await_session_status"
     ELSE /\ pc' = "categories"
          /\ UNCHANGED client
  /\ UNCHANGED <<environment, otherLocals, route, telemetryLocals, response>>

SessionStatusReturns ==
  /\ pc = "await_session_status"
  /\ \E http \in Fetched(IF route = "telemetry" THEN SessionStatusFetches ELSE V1SessionStatusFetches) :
       LET r == invokeGateway(gatewayUrl, http)
       IN /\ Settled(http, r, usable(r))
          /\ IF usable(r)
             THEN sessionStatus' = r.result /\ UNCHANGED warnings
             ELSE /\ warnings' = Append(warnings, Warning("session_status", Str("session_status unavailable")))
                  /\ UNCHANGED sessionStatus
  /\ pc' = "categories"
  /\ UNCHANGED <<environment, otherLocals, route, fetches, sessionsResponse, gatewayAvailable, sessions, mainSession,
                 terminalItems, cronJobsPayload, cronRunsPayload, loopIndex, response>>

\* { tool, result } of a usable reply
Payload(tool, result) == [tool |-> Str(tool), result |-> result]

\* The process list has no tool: warn; then invoke cron with action "list".
ProcessListAndCronList ==
  /\ pc = "categories"
  /\ route = "telemetry"
  /\ warnings' = Append(warnings, Warning("process list", Str("(no process_list tool)")))
  /\ Invoke("cron", O2("action", Str("list"), "limit", Num(50)))
  /\ pc' = "await_cron_list"
  /\ UNCHANGED <<environment, otherLocals, route, sessionsResponse, gatewayAvailable, sessions, mainSession,
                 terminalItems, sessionStatus, cronJobsPayload, cronRunsPayload, loopIndex, response>>

CronListReturns ==
  /\ pc = "await_cron_list"
  /\ \E http \in Fetched(CronListFetches) :
       LET r == invokeGateway(gatewayUrl, http)
       IN /\ Settled(http, r, usable(r))
          /\ cronJobsPayload' = IF usable(r) THEN Payload("cron", r.result) ELSE Null
          /\ warnings' = IF usable(r) THEN warnings
                         ELSE Append(warnings, Warning("cron jobs", Str("(tried cron list)")))
  /\ cronRunsPayload' = Null
  /\ loopIndex' = 1
  /\ pc' = "cron_runs"
  /\ UNCHANGED <<environment, otherLocals, route, fetches, sessionsResponse, gatewayAvailable, sessions, mainSession,
                 terminalItems, sessionStatus, response>>

cronRunsActions_runsOnly == <<"runs">>

\* for (const action of ['runs', 'run'])
cronRunsActions == <<"runs", "run">>

\* The head of the loop: invoke cron with the next action, or leave the loop.
CronRunsLoop ==
  /\ pc = "cron_runs"
  /\ IF loopIndex <= Len(cronRunsActions)
     THEN /\ Invoke("cron", O2("action", Str(cronRunsActions[loopIndex]), "limit", Num(50)))
          /\ pc' = "await_cron_runs"
     ELSE /\ pc' = "respond"
          /\ UNCHANGED client
  /\ UNCHANGED <<environment, otherLocals, route, telemetryLocals, response>>

\* The body of the loop: keep the first usable result and break.
CronRunsReturns ==
  /\ pc = "await_cron_runs"
  /\ \E http \in Fetched(CronRunsFetches) :
       LET r == invokeGateway(gatewayUrl, http)
       IN /\ Settled(http, r, usable(r))
          /\ IF usable(r)
             THEN /\ cronRunsPayload' = Payload("cron", r.result)
                  /\ pc' = "respond"
                  /\ UNCHANGED loopIndex
             ELSE /\ loopIndex' = loopIndex + 1
                  /\ pc' = "cron_runs"
                  /\ UNCHANGED cronRunsPayload
  /\ UNCHANGED <<environment, otherLocals, route, fetches, warnings, sessionsResponse, gatewayAvailable, sessions,
                 mainSession, terminalItems, sessionStatus, cronJobsPayload, response>>

closingWarnings_failuresOnly(runsPayload) ==
  IF runsPayload = Null THEN << Warning("cron runs", Str("(tried cron runs, cron run)")) >> ELSE <<>>

\* The warnings pushed after the cron runs loop.
closingWarnings(runsPayload) ==
  (IF runsPayload = Null THEN << Warning("cron runs", Str("(tried cron runs, cron run)")) >> ELSE <<>>)
  \o << Warning("queues", Str("(no queue_status tool)")),
        Warning("system events", Str("(no system_events_list tool)")),
        Warning("usage", Str("(no usage_summary tool, try session_status)")) >>

cronJobsOf_unmapped(payload) ==
  IF payload = Null THEN Arr(<<>>) ELSE Or(OptProp(payload.result, "jobs"), Arr(<<>>))

\* cronJobsPayload ? normalizeCronJobs(cronJobsPayload.result) : []
cronJobsOf(payload) == IF payload = Null THEN Arr(<<>>) ELSE normalizeCronJobs(payload.result)

\* cronRunsPayload ? normalizeCronRuns(cronRunsPayload.result) : []
cronRunsOf(payload) == IF payload = Null THEN Arr(<<>>) ELSE normalizeCronRuns(payload.result)

\* The response object of the current telemetry route.
telemetryBody(w) ==
  [gateway |-> [available |-> gatewayAvailable,
                latencyMs |-> sessionsResponse.latencyMs,
                error |-> IF gatewayAvailable THEN Null
                          ELSE Or(sessionsResponse.error, Str("Gateway unavailable"))],
   sessions |-> [sessions |-> sessions, total |-> Len(sessions.a)],
   terminal |-> [items |-> terminalItems, sourceSession |-> Or(mainKey, Null)],
   sessionStatus |-> sessionStatus,
   processes |-> [tool |-> Null, items |-> Arr(<<>>)],
   cron |-> [tool |-> Str("cron"), jobs |-> cronJobsOf(cronJobsPayload), runs |-> cronRunsOf(cronRunsPayload)],
   queues |-> [tool |-> Null, items |-> Arr(<<>>)],
   systemEvents |-> [tool |-> Null, items |-> Arr(<<>>)],
   usage |-> [tool |-> Null, items |-> Arr(<<>>)],
   risk |-> [whoopTokenExpiresAt |-> Null, sofiRisk |-> Null, gatewayDown |-> ~gatewayAvailable],
   warnings |-> Arr(w)]

\* The rest of the handler: the closing warnings and the response.
TelemetryResponds ==
  /\ pc = "respond"
  /\ route = "telemetry"
  /\ warnings' = warnings \o closingWarnings(cronRunsPayload)
  /\ IF cronJobsOf(cronJobsPayload) = TypeError \/ cronRunsOf(cronRunsPayload) = TypeError
     THEN Throw("TypeError")
     ELSE /\ response' = [status |-> 200, body |-> telemetryBody(warnings')]
          /\ pc' = "done"
  /\ UNCHANGED <<environment, otherLocals, route, client, sessionsResponse, gatewayAvailable, sessions,
                 mainSession, terminalItems, sessionStatus, cronJobsPayload, cronRunsPayload, loopIndex>>

\* --------------------------------------------- GET /api/telemetry (earlier)

\* The firstAvailable calls of the earlier route, in order: label, tools, limit.
V1Categories ==
  << [label |-> "process list", limit |-> 20,
      tools |-> <<"process_list", "processes_list", "system_process_list">>],
     [label |-> "cron jobs", limit |-> 50,
      tools |-> <<"cron_list", "cron_jobs_list", "cron_list_jobs">>],
     [label |-> "cron runs", limit |-> 50,
      tools |-> <<"cron_runs_list", "cron_history", "cron_runs">>],
     [label |-> "queues", limit |-> 20,
      tools |-> <<"queue_status", "queue_depth", "queues_list", "io_queue_status">>],
     [label |-> "system events", limit |-> 50,
      tools |-> <<"system_events_list", "events_list", "system_log_list">>],
     [label |-> "usage", limit |-> 20,
      tools |-> <<"usage_summary", "model_usage", "cost_usage", "billing_usage", "usage_list">>] >>

\* The text `(tried ${tools.join(', ')})` of a warning.
Tried(tools) == [t |-> "string", tried |-> tools]

firstAvailableNote_firstToolOnly(label, tools) == Warning(label, Tried(<<tools[1]>>))

\* `${label} unavailable (tried ${tools.join(', ')})`
firstAvailableNote(label, tools) == Warning(label, Tried(tools))

TelemetryV1Start ==
  /\ pc = "idle"
  /\ route' = "telemetry_v1"
  /\ pc' = "await_sessions_list"
  /\ Invoke("sessions_list", Obj(<<>>))
  /\ UNCHANGED <<environment, otherLocals, telemetryLocals, response>>

\* The first firstAvailable call is entered.
FirstAvailableStart ==
  /\ pc = "categories"
  /\ route = "telemetry_v1"
  /\ category' = 1
  /\ loopIndex' = 1
  /\ pc' = "first_available"
  /\ UNCHANGED <<environment, route, client, warnings, sessionsResponse, gatewayAvailable, sessions,
                 mainSession, terminalItems, sessionStatus, cronJobsPayload, cronRunsPayload,
                 payloads, processes, request, jobId, sessionId, response>>

\* firstAvailable returns `payload`: the statements up to the next firstAvailable call.
FirstAvailableReturned(payload) ==
  /\ payloads' = Append(payloads, payload)
  /\ IF category = 1 /\ payload # Null /\ normalizeProcesses(payload.result) = TypeError
     THEN /\ Throw("TypeError")
          /\ UNCHANGED <<processes, category, loopIndex>>
     ELSE /\ processes' = IF category # 1 THEN processes
                          ELSE IF payload = Null THEN Arr(<<>>) ELSE normalizeProcesses(payload.result)
          /\ UNCHANGED response
          /\ IF category < Len(V1Categories)
             THEN /\ category' = category + 1
                  /\ loopIndex' = 1
                  /\ pc' = "first_available"
             ELSE /\ pc' = "respond"
                  /\ UNCHANGED <<category, loopIndex>>

\* The head of the loop of firstAvailable: the next tool, or the warning and null.
FirstAvailableLoop ==
  /\ pc = "first_available"
  /\ LET c == V1Categories[category]
     IN IF loopIndex <= Len(c.tools)
        THEN /\ Invoke(c.tools[loopIndex], O1("limit", Num(c.limit)))
             /\ pc' = "await_first_available"
             /\ UNCHANGED <<warnings, payloads, processes, category, loopIndex, response>>
        ELSE /\ warnings' = Append(warnings, firstAvailableNote(c.label, c.tools))
             /\ FirstAvailableReturned(Null)
             /\ UNCHANGED client
  /\ UNCHANGED <<environment, route, sessionsResponse, gatewayAvailable, sessions, mainSession,
                 terminalItems, sessionStatus, cronJobsPayload, cronRunsPayload, request, jobId,
                 sessionId>>

\* The body of the loop of firstAvailable: return the first usable result.
FirstAvailableReturns ==
  /\ pc = "await_first_available"
  /\ \E http \in Fetched(FirstAvailableFetches \cup
                         (IF category = 1 THEN {Http(200, Wrapped(O1("processes", Arr(<<Null>>))))} ELSE {})) :
       LET r == invokeGateway(gatewayUrl, http)
       IN /\ Settled(http, r, usable(r))
          /\ IF usable(r)
             THEN FirstAvailableReturned(Payload(V1Categories[category].tools[loopIndex], r.result))
             ELSE /\ loopIndex' = loopIndex + 1
                  /\ pc' = "first_available"
                  /\ UNCHANGED <<payloads, processes, category, response>>
  /\ UNCHANGED <<environment, route, fetches, warnings, sessionsResponse, gatewayAvailable, sessions,
                 mainSession, terminalItems, sessionStatus, cronJobsPayload, cronRunsPayload, request,
                 jobId, sessionId>>

\* payload?.tool || null
toolOf(payload) == IF payload = Null THEN Null ELSE payload.tool

\* payload ? normalize(payload.result) : []
itemsOf(payload, normalize(_)) == IF payload = Null THEN Arr(<<>>) ELSE normalize(payload.result)

\* The response object of the earlier telemetry route.
telemetryV1Body ==
  [gateway |-> [available |-> gatewayAvailable,
                latencyMs |-> sessionsResponse.latencyMs,
                error |-> IF gatewayAvailable THEN Null
                          ELSE Or(sessionsResponse.error, Str("Gateway unavailable"))],
   sessions |-> [sessions |-> sessions, total |-> Len(sessions.a)],
   terminal |-> [items |-> terminalItems, sourceSession |-> Or(mainKey, Null)],
   sessionStatus |-> sessionStatus,
   processes |-> [tool |-> toolOf(payloads[1]), items |-> processes],
   cron |-> [tool |-> Or(Or(toolOf(payloads[2]), toolOf(payloads[3])), Null),
             jobs |-> itemsOf(payloads[2], normalizeCronJobsV1),
             runs |-> itemsOf(payloads[3], normalizeCronRunsV1)],
   queues |-> [tool |-> toolOf(payloads[4]), items |-> itemsOf(payloads[4], normalizeQueues)],
   systemEvents |-> [tool |-> toolOf(payloads[5]), items |-> itemsOf(payloads[5], normalizeEvents)],
   usage |-> [tool |-> toolOf(payloads[6]), items |-> itemsOf(payloads[6], normalizeUsage)],
   risk |-> [whoopTokenExpiresAt |-> Null, sofiRisk |-> Null, gatewayDown |-> ~gatewayAvailable],
   warnings |-> Arr(warnings)]

TelemetryV1Responds ==
  /\ pc = "respond"
  /\ route = "telemetry_v1"
  /\ IF \/ itemsOf(payloads[2], normalizeCronJobsV1) = TypeError
        \/ itemsOf(payloads[3], normalizeCronRunsV1) = TypeError
        \/ itemsOf(payloads[4], normalizeQueues) = TypeError
        \/ itemsOf(payloads[5], normalizeEvents) = TypeError
        \/ itemsOf(payloads[6], normalizeUsage) = TypeError
     THEN Throw("TypeError")
     ELSE /\ response' = [status |-> 200, body |-> telemetryV1Body]
          /\ pc' = "done"
  /\ UNCHANGED <<environment, otherLocals, route, client, telemetryLocals>>

\* ------------------------------------------------------------ POST /api/cron

\* invokeGateway of the cron route: { ok, error } or { ok, result }.
invokeGatewayCron(url, http) ==
  IF ~url THEN Failure(Str("Missing GATEWAY_URL"), Undefined, Undefined)
  ELSE IF http.kind = "exception" THEN Failure(Str(http.message), Undefined, Undefined)
  ELSE IF ~ResponseOk(http)
       THEN Failure(Or(Or(OptProp(PayloadOrNull(http), "error"), OptProp(PayloadOrNull(http), "message")),
                       StatusLine(http.status)), Undefined, Undefined)
       ELSE Success(parseGatewayResult(Nullish(OptProp(PayloadOrNull(http), "result"), PayloadOrNull(http))),
                    Undefined, Undefined)

\* The bodies of the requests posted to the route.
CronRequestBodies ==
  { Unparsable, Null, Obj(<<>>), Str("nightly"),
    O1("jobId", Str("nightly")), O1("name", Str("nightly")), O1("id", Str("nightly")),
    O2("jobId", Str(""), "id", Num(7)), O1("jobId", Num(0)) }

\* await request.json().catch(() => ({}))
bodyOf(posted) == IF posted = Unparsable THEN Obj(<<>>) ELSE posted

\* body.jobId || body.name || body.id
jobIdOf(body) ==
  IF IsNullish(body) THEN TypeError
  ELSE Or(Or(Prop(body, "jobId"), Prop(body, "name")), Prop(body, "id"))

cronRunTools == <<"cron_run", "cron_job_run", "cron_execute", "cron_trigger">>

\* What a cron run tool returns.
CronRunFetches ==
  FailedFetches \cup { Http(200, O1("result", O1("started", Bool(TRUE)))), Http(200, Unparsable) }

cronLocals == <<category, payloads, processes, sessionId>>

\* The handler up to its first await of the gateway.
CronPost ==
  /\ pc = "idle"
  /\ route' = "cron"
  /\ \E posted \in CronRequestBodies :
       /\ request' = posted
       /\ IF jobIdOf(bodyOf(posted)) = TypeError
          THEN /\ Throw("TypeError")
               /\ UNCHANGED <<jobId, loopIndex>>
          ELSE /\ jobId' = jobIdOf(bodyOf(posted))
               /\ IF ~Truthy(jobIdOf(bodyOf(posted)))
                  THEN /\ response' = [status |-> 400,
                                       body |-> [ok |-> FALSE, error |-> Str("Missing jobId")]]
                       /\ pc' = "done"
                       /\ UNCHANGED loopIndex
                  ELSE /\ loopIndex' = 1
                       /\ pc' = "cron_tools"
                       /\ UNCHANGED response
  /\ UNCHANGED <<environment, client, warnings, sessionsResponse, gatewayAvailable, sessions,
                 mainSession, terminalItems, sessionStatus, cronJobsPayload, cronRunsPayload,
                 cronLocals>>

\* The head of the loop over the tools: the next call, or the 503.
CronPostLoop ==
  /\ pc = "cron_tools"
  /\ IF loopIndex <= Len(cronRunTools)
     THEN /\ Invoke(cronRunTools[loopIndex], O3("jobId", jobId, "name", jobId, "id", jobId))
          /\ pc' = "await_cron_tool"
          /\ UNCHANGED response
     ELSE /\ response' = [status |-> 503,
                          body |-> [ok |-> FALSE,
                                    error |-> Template(<<Str("No cron run tool available"),
                                                         Tried(cronRunTools)>>)]]
          /\ pc' = "done"
          /\ UNCHANGED client
  /\ UNCHANGED <<environment, route, telemetryLocals, otherLocals>>

\* The body of the loop: answer with the first tool whose call is ok.
CronPostReturns ==
  /\ pc = "await_cron_tool"
  /\ \E http \in Fetched(CronRunFetches) :
       LET r == invokeGatewayCron(gatewayUrl, http)
       IN /\ Settled(http, r, r.ok)
          /\ IF r.ok
             THEN /\ response' = [status |-> 200,
                                  body |-> [ok |-> TRUE, tool |-> cronRunTools[loopIndex],
                                            result |-> r.result]]
                  /\ pc' = "done"
                  /\ UNCHANGED loopIndex
             ELSE /\ loopIndex' = loopIndex + 1
                  /\ pc' = "cron_tools"
                  /\ UNCHANGED response
  /\ UNCHANGED <<environment, route, fetches, warnings, sessionsResponse, gatewayAvailable, sessions,
                 mainSession, terminalItems, sessionStatus, cronJobsPayload, cronRunsPayload,
                 otherLocals>>

\* -------------------------------------------------------- GET /api/sessions

\* What the fetch of GATEWAY_URL/sessions/list ends in.
SessionsRouteFetches ==
  { NetworkError("fetch failed"), Http(500, Unparsable), Http(404, O1("error", Str("nope"))),
    Http(200, Unparsable), Http(200, Null), Http(200, Obj(<<>>)),
    Http(200, O1("sessions", Arr(<<RawMain>>))), Http(200, O1("sessions", Str("none"))) }

\* The handler up to its fetch: a 503 when GATEWAY_URL is missing.
SessionsGet ==
  /\ pc = "idle"
  /\ route' = "sessions"
  /\ IF ~gatewayUrl
     THEN /\ response' = [status |-> 503,
                          body |-> [error |-> Str("Missing GATEWAY_URL"), sessions |-> Arr(<<>>)]]
          /\ pc' = "done"
          /\ UNCHANGED client
     ELSE /\ Invoke("/sessions/list", Obj(<<>>))
          /\ pc' = "await_sessions_route"
          /\ UNCHANGED response
  /\ UNCHANGED <<environment, telemetryLocals, otherLocals>>

\* sessions.length of data?.sessions || []
lengthOf(list) ==
  CASE list.t = "array" -> Num(Len(list.a))
    [] list.t = "string" /\ "s" \in DOMAIN list -> Num(4)
    [] OTHER -> Undefined

\* The rest of the try block and the catch block.
SessionsGetReturns ==
  /\ pc = "await_sessions_route"
  /\ \E http \in SessionsRouteFetches :
       /\ Settled(http, [ok |-> http.kind = "response" /\ ResponseOk(http), result |-> http.body],
                  http.kind = "response" /\ ResponseOk(http) /\ http.body # Unparsable)
       /\ response' =
            IF http.kind = "exception"
            THEN [status |-> 500, body |-> [error |-> Str(http.message), sessions |-> Arr(<<>>)]]
            ELSE IF ~ResponseOk(http)
            THEN [status |-> http.status,
                  body |-> [error |-> Template(<<Str("Gateway error: "), Num(http.status)>>),
                            sessions |-> Arr(<<>>)]]
            ELSE IF http.body = Unparsable
            THEN [status |-> 500, body |-> [error |-> Str("Unexpected token"), sessions |-> Arr(<<>>)]]
            ELSE LET list == Or(OptProp(http.body, "sessions"), Arr(<<>>))
                 IN [status |-> 200,
                     body |-> [sessions |-> list, total |-> lengthOf(list), timestamp |-> NowISO]]
  /\ pc' = "done"
  /\ UNCHANGED <<environment, route, fetches, telemetryLocals, otherLocals>>

\* ------------------------------------------------------ GET /api/background

\* How an awaited call ends: it returns a value or it raises.
Rejected(error) == [raised |-> TRUE, value |-> Undefined, error |-> error]
Resolved(value) == [raised |-> FALSE, value |-> value, error |-> ""]

\* invokeGateway of the background route: the fetch and response.json() are
\* awaited outside any try block.
invokeGatewayBackground(url, http) ==
  IF ~url THEN Resolved(Null)
  ELSE IF http.kind = "exception" THEN Rejected(http.message)
  ELSE IF ~ResponseOk(http) THEN Resolved(Null)
  ELSE IF http.body = Unparsable THEN Rejected("SyntaxError")
  ELSE Resolved(parseGatewayResult(Nullish(OptProp(http.body, "result"), Null)))

\* The list normalizeRuns maps over, for a truthy result.
runsOf(result) ==
  IF IsArray(result) THEN result
  ELSE IF IsArray(Prop(result, "runs")) THEN Prop(result, "runs")
  ELSE IF IsArray(Prop(result, "items")) THEN Prop(result, "items")
  ELSE IF IsArray(Prop(result, "records")) THEN Prop(result, "records")
  ELSE IF IsArray(Prop(result, "events")) THEN Prop(result, "events")
  ELSE Arr(<<>>)

\* The map callback of normalizeRuns.
normalizeRun(tool, index, run) ==
  IF IsNullish(run) THEN TypeError
  ELSE LET detail == Or(Or(Or(Or(coerceString(Prop(run, "message")),
                                 coerceString(Prop(run, "summary"))),
                              coerceString(Prop(run, "result"))),
                           coerceString(Prop(run, "output"))),
                        coerceString(Prop(run, "error")))
       IN [id |-> Or(Or(Or(Or(coerceString(Prop(run, "id")), coerceString(Prop(run, "run_id"))),
                           coerceString(Prop(run, "task_id"))),
                        coerceString(Prop(run, "event_id"))),
                     Template(<<Str(tool), Num(index), Str("Date.now()")>>)),
           title |-> Or(Or(Or(Or(Or(coerceString(Prop(run, "name")), coerceString(Prop(run, "task"))),
                                 coerceString(Prop(run, "job"))),
                              coerceString(Prop(run, "title"))),
                           coerceString(Prop(run, "type"))),
                        Str(tool)),
           status |-> Or(coerceString(Prop(run, "status")), coerceString(Prop(run, "state"))),
           detail |-> IF Truthy(detail) THEN SliceText(detail, 140) ELSE Undefined,
           source |-> Str(tool),
           timestamp |-> Or(Or(Or(Or(coerceTimestamp(Prop(run, "timestamp")),
                                     coerceTimestamp(Prop(run, "started_at"))),
                                  coerceTimestamp(Prop(run, "created_at"))),
                               coerceTimestamp(Prop(run, "time"))),
                            NowISO)]

normalizeRuns(tool, result) ==
  LET runs == runsOf(result).a
      items == [i \in 1..Len(runs) |-> normalizeRun(tool, i - 1, runs[i])]
  IN IF \E i \in 1..Len(runs) : items[i] = TypeError THEN TypeError ELSE Arr(items)

\* The tools of fetchBackgroundRuns; GATEWAY_BACKGROUND_TOOL is not set.
backgroundTools ==
  <<"cron_runs_list", "cron_history", "background_runs_list", "task_history", "tasks_history",
    "system_events_list">>

\* sessions.map((s) => s.session_id || s.key || '').filter(Boolean) of fetchAllSessions
sessionIdsOf(result) ==
  LET list == Or(OptProp(result, "sessions"), Arr(<<>>))
  IN IF ~IsArray(list) \/ \E i \in 1..Len(list.a) : IsNullish(list.a[i]) THEN TypeError
     ELSE Arr(SelectSeq([i \in 1..Len(list.a) |->
                           Or(Or(Prop(list.a[i], "session_id"), Prop(list.a[i], "key")), Str(""))],
                        Truthy))

\* sessions.find((s) => s.includes(':main:main')) || sessions[0] || null
mainSessionIdOf(ids) ==
  LET stops == {i \in 1..Len(ids.a) : ids.a[i].t # "string" \/ includesMainMain(ids.a[i])}
      first == IF stops = {} THEN 0 ELSE CHOOSE i \in stops : \A j \in stops : i <= j
  IN IF first = 0 THEN (IF Len(ids.a) > 0 THEN ids.a[1] ELSE Null)
     ELSE IF ids.a[first].t # "string" THEN TypeError
     ELSE ids.a[first]

parseLabel(id, label) ==
  IF Truthy(label) THEN label
  ELSE CASE id = Str("agent:main:subagent:7") -> Template(<<Str("Subagent "), Str("7")>>)
         [] id = Str("agent:main:main:thread:1") -> Str("agent:main:main:")
         [] OTHER -> id

\* new Date(timestamp).getTime() of an item of fallbackFromHistory
TimeOf(timestamp) ==
  IF timestamp.t = "number" THEN timestamp
  ELSE IF timestamp.t = "string" THEN GetTime(timestamp)
  ELSE NaN

\* The comparator of the sort puts `a` after `b`.
Later(a, b) == TimeOf(a.timestamp) # NaN /\ TimeOf(b.timestamp) # NaN
               /\ TimeOf(b.timestamp).n > TimeOf(a.timestamp).n

RECURSIVE InsertByRawTime(_, _)
InsertByRawTime(sorted, item) ==
  IF sorted = <<>> THEN <<item>>
  ELSE IF Later(Head(sorted), item) THEN <<item>> \o sorted
       ELSE <<Head(sorted)>> \o InsertByRawTime(Tail(sorted), item)

RECURSIVE SortByRawTime(_)
SortByRawTime(items) ==
  IF items = <<>> THEN <<>>
  ELSE InsertByRawTime(SortByRawTime(SubSeq(items, 1, Len(items) - 1)), items[Len(items)])

\* One pass of the loop of fallbackFromHistory.
fallbackEntryItems(entry, id, label) ==
  IF IsNullish(entry) THEN Raised
  ELSE LET content == Prop(entry, "content")
           chunks == IF IsArray(content) THEN content.a ELSE <<>>
           texts == SelectSeq([i \in 1..Len(chunks) |-> Prop(chunks[i], "text")], Truthy)
           text == IF content.t = "string" THEN content
                   ELSE IF texts = <<>> THEN Str("") ELSE Template(texts)
           toolCalls == Prop(entry, "tool_calls")
           calling == IF IsArray(toolCalls) THEN toolCalls.a ELSE <<>>
           toolNames == [i \in 1..Len(calling) |->
                           Or(OptProp(Prop(calling[i], "function"), "name"), Str("unknown"))]
           isTool == Len(calling) > 0
       IN IF \/ \E i \in 1..Len(chunks) : IsNullish(chunks[i])
             \/ ~IsNullish(toolCalls) /\ ~IsArray(toolCalls)
             \/ \E i \in 1..Len(calling) : IsNullish(calling[i])
          THEN Raised
          ELSE IF ~Truthy(text) /\ ~isTool THEN Pushed(<<>>)
          ELSE Pushed(<< [id |-> Template(<<id, Or(Prop(entry, "timestamp"), Str("Date.now()")),
                                            Str("Math.random()")>>),
                          title |-> IF isTool THEN Str("tool_call")
                                    ELSE Or(Prop(entry, "role"), Str("event")),
                          status |-> Prop(entry, "role"),
                          detail |-> SliceText(IF isTool THEN Template(<<Str("tools: ")>> \o toolNames)
                                               ELSE text, 400),
                          source |-> label,
                          timestamp |-> Or(Prop(entry, "timestamp"), NowISO)] >>)

\* fallbackFromHistory from the history of the main session on.
fallbackItems(id, history) ==
  LET entries == Or(Or(OptProp(history, "history"), OptProp(history, "messages")), Arr(<<>>))
  IN IF ~IsArray(entries) THEN Arr(<<>>)
     ELSE LET last == SliceLast(entries.a, 40)
              label == parseLabel(id, OptProp(history, "label"))
              per == [i \in 1..Len(last) |-> fallbackEntryItems(last[i], id, label)]
              sorted == SortByRawTime(Concat([i \in 1..Len(last) |-> per[i].items]))
          IN IF \E i \in 1..Len(last) : per[i].raised THEN TypeError
             ELSE Arr(SubSeq(sorted, 1, IF Len(sorted) < 30 THEN Len(sorted) ELSE 30))

\* What a tool of fetchBackgroundRuns returns.
BackgroundFetches ==
  { NetworkError("fetch failed"), Http(500, Unparsable), Http(200, Unparsable), Http(200, Obj(<<>>)),
    Http(200, O1("result", O1("runs", Arr(<<>>)))),
    Http(200, O1("result", O1("runs", Arr(<<Null>>)))),
    Http(200, O1("result", O1("runs", Arr(<< O2("run_id", Num(7), "state", Str("ok")) >>)))),
    Http(200, Wrapped(Arr(<< O2("id", Str("r1"), "started_at", Str("2024-01-01T00:00:00Z")) >>))) }

\* What sessions_list returns to fetchAllSessions.
BackgroundSessionsFetches ==
  { NetworkError("fetch failed"), Http(404, Unparsable), Http(200, Unparsable),
    Http(200, O1("result", O1("sessions", Arr(<<>>)))),
    Http(200, O1("result", O1("sessions", Str("none")))),
    Http(200, O1("result", O1("sessions", Arr(<< O1("session_id", Num(7)) >>)))),
    Http(200, O1("result", O1("sessions",
                              Arr(<< O1("key", Str("agent:other:x")), O1("session_id", Str("agent:main:main")) >>)))),
    Http(200, Wrapped(O1("sessions", Arr(<< O1("key", Str("agent:main:subagent:7")) >>)))) }

\* What sessions_history returns to fetchSessionHistory.
BackgroundHistoryFetches ==
  { NetworkError("fetch failed"), Http(500, Unparsable), Http(200, Unparsable),
    Http(200, O1("result", O1("history", Arr(<<Null>>)))),
    Http(200, O1("result", O1("history", Arr(<< O2("role", Str("user"), "content", Str("hello")),
                                                 HistoryToolCalls >>)))),
    Http(200, Wrapped(O2("label", Str("main"), "messages",
                         Arr(<< O3("role", Str("user"), "content", Str("first"),
                                   "timestamp", Str("2024-01-01T00:00:00Z")),
                                O3("role", Str("assistant"), "content", Arr(<< O1("text", Str("second")) >>),
                                   "timestamp", Str("2024-01-01T00:00:30Z")) >>)))) }

backgroundOthers == <<warnings, sessionsResponse, gatewayAvailable, sessions, mainSession, terminalItems,
                      sessionStatus, cronJobsPayload, cronRunsPayload, category, payloads, processes,
                      request, jobId>>

\* NextResponse.json({ items, source })
Items(items, source) == [status |-> 200, body |-> [items |-> items, source |-> Str(source)]]

\* GET up to its first await: the fallback at once when GATEWAY_URL is missing.
BackgroundGet ==
  /\ pc = "idle"
  /\ route' = "background"
  /\ IF ~gatewayUrl
     THEN /\ pc' = "fetch_main_session"
          /\ UNCHANGED loopIndex
     ELSE /\ pc' = "background_tools"
          /\ loopIndex' = 1
  /\ UNCHANGED <<environment, client, backgroundOthers, sessionId, response>>

\* The head of the loop of fetchBackgroundRuns: the next tool, or null.
BackgroundRunsLoop ==
  /\ pc = "background_tools"
  /\ IF loopIndex <= Len(backgroundTools)
     THEN /\ Invoke(backgroundTools[loopIndex], O1("limit", Num(20)))
          /\ pc' = "await_background_tool"
     ELSE /\ pc' = "fetch_main_session"
          /\ UNCHANGED client
  /\ UNCHANGED <<environment, route, backgroundOthers, loopIndex, sessionId, response>>

\* The body of the loop of fetchBackgroundRuns, and GET's answer when it
\* returns items.
BackgroundRunsReturns ==
  /\ pc = "await_background_tool"
  /\ \E http \in Fetched(BackgroundFetches) :
       LET r == invokeGatewayBackground(gatewayUrl, http)
           normalized == normalizeRuns(backgroundTools[loopIndex], r.value)
           found == ~r.raised /\ Truthy(r.value) /\ normalized # TypeError /\ Len(normalized.a) > 0
       IN /\ Settled(http, [ok |-> ~r.raised /\ r.value # Null, result |-> r.value], found)
          /\ IF r.raised \/ (Truthy(r.value) /\ normalized = TypeError)
             THEN /\ Throw(IF r.raised THEN r.error ELSE "TypeError")
                  /\ UNCHANGED loopIndex
             ELSE IF found
             THEN /\ response' = Items(normalized, "gateway")
                  /\ pc' = "done"
                  /\ UNCHANGED loopIndex
             ELSE /\ loopIndex' = loopIndex + 1
                  /\ pc' = "background_tools"
                  /\ UNCHANGED response
  /\ UNCHANGED <<environment, route, fetches, backgroundOthers, sessionId>>

\* fallbackFromHistory, fetchMainSession, fetchAllSessions: the call of sessions_list.
FetchAllSessions ==
  /\ pc = "fetch_main_session"
  /\ Invoke("sessions_list", Obj(<<>>))
  /\ pc' = "await_all_sessions"
  /\ UNCHANGED <<environment, route, backgroundOthers, loopIndex, sessionId, response>>

\* fetchAllSessions and fetchMainSession return; without a session the answer is empty.
FetchMainSessionReturns ==
  /\ pc = "await_all_sessions"
  /\ \E http \in Fetched(BackgroundSessionsFetches) :
       LET r == invokeGatewayBackground(gatewayUrl, http)
           ids == sessionIdsOf(r.value)
           id == IF ids = TypeError THEN TypeError ELSE mainSessionIdOf(ids)
       IN /\ Settled(http, [ok |-> ~r.raised /\ r.value # Null, result |-> r.value], ~r.raised /\ id # TypeError /\ Truthy(id))
          /\ IF r.raised \/ id = TypeError
             THEN /\ Throw(IF r.raised THEN r.error ELSE "TypeError")
                  /\ UNCHANGED sessionId
             ELSE /\ sessionId' = id
                  /\ IF ~Truthy(id)
                     THEN /\ response' = Items(Arr(<<>>), "sessions_history")
                          /\ pc' = "done"
                     ELSE /\ pc' = "fetch_session_history"
                          /\ UNCHANGED response
  /\ UNCHANGED <<environment, route, fetches, backgroundOthers, loopIndex>>

\* fetchSessionHistory: the call of sessions_history.
FetchSessionHistory ==
  /\ pc = "fetch_session_history"
  /\ Invoke("sessions_history", O2("sessionKey", sessionId, "limit", Num(20)))
  /\ pc' = "await_session_history"
  /\ UNCHANGED <<environment, route, backgroundOthers, loopIndex, sessionId, response>>

\* The rest of fallbackFromHistory and GET's answer.
FallbackFromHistoryReturns ==
  /\ pc = "await_session_history"
  /\ \E http \in Fetched(BackgroundHistoryFetches) :
       LET r == invokeGatewayBackground(gatewayUrl, http)
           items == fallbackItems(sessionId, Nullish(r.value, Null))
       IN /\ Settled(http, [ok |-> ~r.raised /\ r.value # Null, result |-> r.value], ~r.raised /\ items # TypeError)
          /\ IF r.raised \/ items = TypeError
             THEN Throw(IF r.raised THEN r.error ELSE "TypeError")
             ELSE /\ response' = Items(items, "sessions_history")
                  /\ pc' = "done"
  /\ UNCHANGED <<environment, route, fetches, backgroundOthers, loopIndex, sessionId>>

\* The request is over; the next one starts from scratch.
Finish ==
  /\ pc \in {"done", "thrown"}
  /\ route' = "none"
  /\ pc' = "idle"
  /\ calls' = <<>>
  /\ fetches' = 0
  /\ lastReply' = NoReply
  /\ warnings' = <<>>
  /\ sessionsResponse' = Undefined
  /\ gatewayAvailable' = FALSE
  /\ sessions' = Arr(<<>>)
  /\ mainSession' = Undefined
  /\ terminalItems' = Arr(<<>>)
  /\ sessionStatus' = Null
  /\ cronJobsPayload' = Null
  /\ cronRunsPayload' = Null
  /\ loopIndex' = 0
  /\ category' = 0
  /\ payloads' = <<>>
  /\ processes' = Arr(<<>>)
  /\ request' = Undefined
  /\ jobId' = Undefined
  /\ sessionId' = Null
  /\ response' = NoResponse
  /\ UNCHANGED environment

Next ==
  \/ TelemetryStart
  \/ SessionsListReturns
  \/ TerminalFeed
  \/ SessionsHistoryReturns
  \/ SessionStatus
  \/ SessionStatusReturns
  \/ ProcessListAndCronList
  \/ CronListReturns
  \/ CronRunsLoop
  \/ CronRunsReturns
  \/ TelemetryResponds
  \/ TelemetryV1Start
  \/ FirstAvailableStart
  \/ FirstAvailableLoop
  \/ FirstAvailableReturns
  \/ TelemetryV1Responds
  \/ CronPost
  \/ CronPostLoop
  \/ CronPostReturns
  \/ SessionsGet
  \/ SessionsGetReturns
  \/ BackgroundGet
  \/ BackgroundRunsLoop
  \/ BackgroundRunsReturns
  \/ FetchAllSessions
  \/ FetchMainSessionReturns
  \/ FetchSessionHistory
  \/ FallbackFromHistoryReturns
  \/ Finish

Spec == Init /\ [][Next]_vars

\* ----------------------------------------------------------- properties

TelemetryRoutes == {"telemetry", "telemetry_v1"}

\* The last call of the request made so far.
LastCall == calls[Len(calls)]

\* The value of the `action` argument of a call of the cron tool.
ActionOf(call) == Lookup(call.args.o, "action")

\* Some call of `tool` returned a result that the handler used.
Accepted(tool) == \E i \in 1..Len(calls) : calls[i].tool = tool /\ calls[i].outcome = "accepted"
AcceptedCron(action) ==
  \E i \in 1..Len(calls) :
    calls[i].tool = "cron" /\ ActionOf(calls[i]) = Str(action) /\ calls[i].outcome = "accepted"
IssuedCron(action) ==
  \E i \in 1..Len(calls) : calls[i].tool = "cron" /\ ActionOf(calls[i]) = Str(action)

\* The response carries a warning about the sub-resource.
Warned(about) ==
  \E i \in 1..Len(response.body.warnings.a) : response.body.warnings.a[i].about = about

\* The result of a reply carries a truthy `error` field.
CarriesError(result) == result.t = "object" /\ Truthy(Lookup(result.o, "error"))

\* The call that returned last was ok and its result carries no error.
ReplyUsable == lastReply.ok /\ ~CarriesError(lastReply.result)

\* The collection fields of a telemetry response body.
CollectionsOf(body) ==
  << body.sessions.sessions, body.terminal.items, body.processes.items, body.cron.jobs,
     body.cron.runs, body.queues.items, body.systemEvents.items, body.usage.items >>

\* C1: whatever the gateway calls of one GET /api/telemetry request end in,
\* malformed 2xx bodies included, the handler never throws, never answers
\* 5xx, and answers 200 with a warnings array.
C1_TelemetryAlwaysAnswers200 ==
  route = "telemetry" =>
    /\ pc # "thrown"
    /\ response.status < 500
    /\ pc = "done" => response.status = 200 /\ IsArray(response.body.warnings)

\* C2: with GATEWAY_URL unset every invokeGateway call returns ok:false and
\* no network request is made; GET /api/telemetry answers 200 with
\* gateway.available false, every collection empty and warnings non-empty.
C2_MissingUrlAnswersEmpty ==
  (~gatewayUrl /\ route \in TelemetryRoutes) =>
    /\ fetches = 0
    /\ ~lastReply.ok
    /\ \A i \in 1..Len(calls) : calls[i].outcome # "accepted"
    /\ pc # "thrown"
    /\ pc = "done" =>
         /\ response.status = 200
         /\ response.body.gateway.available = FALSE
         /\ \A i \in 1..8 : CollectionsOf(response.body)[i] = Arr(<<>>)
         /\ Len(response.body.warnings.a) > 0

C2_MissingUrlAnswered ==
  /\ ~gatewayUrl
  /\ route = "telemetry"
  /\ pc = "done"
  /\ Len(calls) = 4
  /\ lastReply.transport = "none"

\* C3: in every telemetry response, each sub-resource that was not obtained
\* from the gateway in the request has an entry in warnings; session status
\* too, when sessions_list failed or returned no session.
C3_EveryMissingResourceIsWarned ==
  (route = "telemetry" /\ pc = "done") =>
    /\ ~Accepted("sessions_list") => Warned("sessions_list")
    /\ ~Accepted("sessions_history") => Warned("terminal feed")
    /\ ~Accepted("session_status") => Warned("session_status")
    /\ Warned("process list")
    /\ ~AcceptedCron("list") => Warned("cron jobs")
    /\ ~(AcceptedCron("runs") \/ AcceptedCron("run")) => Warned("cron runs")
    /\ Warned("queues")
    /\ Warned("system events")
    /\ Warned("usage")

\* C4: in every body a telemetry handler answers with, the collection fields
\* sessions.sessions, terminal.items, processes.items, cron.jobs, cron.runs,
\* queues.items, systemEvents.items, usage.items and warnings are arrays.
C4_CollectionsAreArrays ==
  (route \in TelemetryRoutes /\ pc = "done") =>
    /\ \A i \in 1..8 : IsArray(CollectionsOf(response.body)[i])
    /\ IsArray(response.body.warnings)

C4_FilledCollectionsAnswered ==
  /\ route = "telemetry"
  /\ pc = "done"
  /\ Len(response.body.cron.jobs.a) > 0
  /\ Len(response.body.terminal.items.a) > 0
  /\ Len(response.body.sessions.sessions.a) > 0

\* sessions_list came back unsuccessful or with a truthy error field.
SessionsListFailed == ~sessionsResponse.ok \/ CarriesError(sessionsResponse.result)

\* C5: when sessions_list is unsuccessful or its result carries a truthy
\* error field, the gateway is marked unavailable, no sessions_history and no
\* session_status call is issued, and the cron list and cron runs calls are.
C5_FailedSessionsListShortCircuits ==
  (route = "telemetry" /\ pc \notin {"idle", "await_sessions_list"} /\ SessionsListFailed) =>
    /\ ~gatewayAvailable
    /\ \A i \in 1..Len(calls) : calls[i].tool \notin {"sessions_history", "session_status"}
    /\ pc \in {"respond", "done", "thrown"} => IssuedCron("list") /\ IssuedCron("runs")
    /\ pc = "done" => ~response.body.gateway.available /\ response.body.risk.gatewayDown

C5_ErrorFieldShortCircuited ==
  /\ route = "telemetry"
  /\ pc = "done"
  /\ sessionsResponse.ok
  /\ CarriesError(sessionsResponse.result)
  /\ IssuedCron("list")

\* The key of the i-th normalized session contains ":main:main".
Marked(i) == includesMainMain(sessions.a[i].key)

\* The calls of sessions_history and session_status.
IsSessionCall(call) == call.tool \in {"sessions_history", "session_status"}

\* C6: the main session is the first session in list order whose key contains
\* ":main:main", wherever it stands in the list, and the first session when no
\* key contains it; terminal.sourceSession is its key, and sessions_history and
\* session_status are invoked with that key.
C6_MainSessionSelection ==
  (route = "telemetry" /\ pc \notin {"idle", "await_sessions_list"}) =>
    LET n == Len(sessions.a)
    IN /\ \A i \in 1..n : (Marked(i) /\ \A j \in 1..(i - 1) : ~Marked(j)) => mainSession = sessions.a[i]
       /\ (n > 0 /\ \A i \in 1..n : ~Marked(i)) => mainSession = sessions.a[1]
       /\ n = 0 => mainSession = Undefined
       /\ \A i \in 1..Len(calls) :
            IsSessionCall(calls[i]) => n > 0 /\ Lookup(calls[i].args.o, "sessionKey") = mainSession.key
       /\ pc = "done" =>
            /\ response.body.terminal.sourceSession = IF n = 0 THEN Null ELSE mainSession.key
            /\ n > 0 => \E i \in 1..Len(calls) : calls[i].tool = "sessions_history"
            /\ n > 0 => \E i \in 1..Len(calls) : calls[i].tool = "session_status"

C6_MainSessionSecondInList ==
  /\ route = "telemetry"
  /\ pc = "done"
  /\ Len(sessions.a) = 2
  /\ ~Marked(1)
  /\ Marked(2)
  /\ response.body.terminal.sourceSession = sessions.a[2].key
  /\ Accepted("sessions_history")

\* The calls firstAvailable made for the k-th category, in order.
CallsOfCategory(k) ==
  LET Candidate(call) == \E j \in 1..Len(V1Categories[k].tools) : call.tool = V1Categories[k].tools[j]
  IN SelectSeq(calls, Candidate)

\* The warnings about the k-th category.
NotesOfCategory(k) ==
  LET About(w) == w.about = V1Categories[k].label
  IN SelectSeq(warnings, About)

\* C7: firstAvailable invokes the candidates in list order and stops at the
\* first whose call is ok and whose result has no embedded error: the payload
\* is tagged with that tool, no later candidate is invoked and no warning is
\* added; when every candidate fails it returns null and adds exactly one
\* warning, which names all the tools tried.
C7_FirstAvailable ==
  route = "telemetry_v1" =>
    /\ \A k \in 1..Len(V1Categories) :
         LET tools == V1Categories[k].tools
             made == CallsOfCategory(k)
             m == Len(made)
             notes == NotesOfCategory(k)
         IN /\ m <= Len(tools)
            /\ \A i \in 1..m : made[i].tool = tools[i]
            /\ \A i \in 1..(m - 1) : made[i].outcome = "rejected"
            /\ Len(payloads) < k => notes = <<>>
            /\ Len(payloads) >= k =>
                 IF m > 0 /\ made[m].outcome = "accepted"
                 THEN /\ payloads[k] # Null
                      /\ payloads[k].tool = Str(tools[m])
                      /\ notes = <<>>
                 ELSE /\ m = Len(tools)
                      /\ \A i \in 1..m : made[i].outcome = "rejected"
                      /\ payloads[k] = Null
                      /\ Len(notes) = 1
                      /\ notes[1].text = [t |-> "string", tried |-> tools]
    /\ (pc = "first_available" /\ loopIndex > 1) => (LastCall.outcome = "rejected" /\ ~ReplyUsable)
    /\ (pc = "first_available" /\ loopIndex = 1 /\ category > 1 /\ payloads[category - 1] # Null) =>
         (LastCall.outcome = "accepted" /\ ReplyUsable /\ payloads[category - 1].result = lastReply.result)

C7_SecondCandidateTaken ==
  /\ route = "telemetry_v1"
  /\ pc = "done"
  /\ payloads[1] = Null
  /\ payloads[2] # Null
  /\ payloads[2].tool = Str("cron_jobs_list")
  /\ response.body.cron.tool = Str("cron_jobs_list")

\* The calls of the cron tool that ask for runs, in order.
CronRunsCalls ==
  LET AsksRuns(call) == call.tool = "cron" /\ ActionOf(call) \in {Str("runs"), Str("run")}
  IN SelectSeq(calls, AsksRuns)

\* The list under `runs` of the reply that returned last.
RepliedRuns == Or(OptProp(lastReply.result, "runs"), Arr(<<>>))

\* C8: cron runs are fetched with action "runs" and, only if that call is not
\* usable, with action "run"; the runs of the first usable result are what
\* cron.runs is normalized from; the cron runs warning is there if and only
\* if both calls failed.
C8_CronRunsFallback ==
  route = "telemetry" =>
    LET made == CronRunsCalls
        m == Len(made)
    IN /\ m <= 2
       /\ m >= 1 => ActionOf(made[1]) = Str("runs")
       /\ m = 2 => ActionOf(made[2]) = Str("run") /\ made[1].outcome = "rejected"
       /\ (pc \in {"cron_runs", "respond"} /\ m > 0) =>
            /\ made[m].outcome \in {"accepted", "rejected"}
            /\ made[m].outcome = "accepted" <=> ReplyUsable
       /\ pc \in {"respond", "done"} =>
            /\ m >= 1
            /\ made[1].outcome = "rejected" => m = 2
            /\ cronRunsPayload # Null <=> made[m].outcome = "accepted"
            /\ cronRunsPayload # Null => cronRunsPayload.result = lastReply.result
       /\ pc = "done" =>
            /\ Warned("cron runs") <=> \A i \in 1..m : made[i].outcome = "rejected"
            /\ made[m].outcome = "rejected" => response.body.cron.runs = Arr(<<>>)
            /\ made[m].outcome = "accepted" =>
                 /\ Len(response.body.cron.runs.a) = Len(RepliedRuns.a)
                 /\ \A i \in 1..Len(RepliedRuns.a) :
                      Prop(RepliedRuns.a[i], "id").t = "string" =>
                        response.body.cron.runs.a[i].id = Prop(RepliedRuns.a[i], "id")

C8_RunTakenAfterRunsFailed ==
  /\ route = "telemetry"
  /\ pc = "done"
  /\ Len(CronRunsCalls) = 2
  /\ CronRunsCalls[1].outcome = "rejected"
  /\ CronRunsCalls[2].outcome = "accepted"
  /\ Len(response.body.cron.runs.a) = 1
  /\ response.body.cron.runs.a[1].id = Str("r1")
  /\ response.body.cron.runs.a[1].status = Str("ok")
  /\ ~Warned("cron runs")

\* The posted body names a job under jobId, name or id.
NamesJob(posted) ==
  posted.t = "object" /\ \E k \in {"jobId", "name", "id"} : Truthy(Lookup(posted.o, k))

\* C9: POST /api/cron with a job identifier invokes cron_run, cron_job_run,
\* cron_execute, cron_trigger in that order, stops at the first call that
\* succeeds and answers 200 tagged with that tool; it answers 503 if and only
\* if all four calls fail; without a job identifier in the body it answers
\* 400 and makes no gateway call.
C9_CronRerun ==
  route = "cron" =>
    LET order == <<"cron_run", "cron_job_run", "cron_execute", "cron_trigger">>
        m == Len(calls)
    IN /\ m <= 4
       /\ \A i \in 1..m : calls[i].tool = order[i]
       /\ \A i \in 1..(m - 1) : calls[i].outcome = "rejected"
       /\ (m > 0 /\ LastCall.outcome # "pending") => (LastCall.outcome = "accepted" <=> lastReply.ok)
       /\ ~NamesJob(request) => m = 0 /\ pc = "done" /\ response.status = 400
       /\ NamesJob(request) => pc # "thrown"
       /\ (NamesJob(request) /\ pc = "done") =>
            /\ response.status \in {200, 503}
            /\ response.status = 200 <=> LastCall.outcome = "accepted"
            /\ response.status = 200 => response.body.tool = order[m]
            /\ response.status = 503 <=> (m = 4 /\ \A i \in 1..4 : calls[i].outcome = "rejected")

\* C10: in the telemetry, cron, background and sessions handlers a network
\* exception or a non-2xx status of a gateway call is a failed outcome of
\* that call and is never thrown out of the handler.
C10_TransportErrorsStayInside ==
  /\ lastReply.transport \in {"exception", "non-2xx"} => ~lastReply.ok
  /\ pc = "thrown" => response.error # "fetch failed"

\* ------------------------------------------- the gateway clients on their own

\* invokeGateway of the older background route: the result is returned as delivered.
invokeGatewayBackgroundV1(url, http) ==
  IF ~url THEN Resolved(Null)
  ELSE IF http.kind = "exception" THEN Rejected(http.message)
  ELSE IF ~ResponseOk(http) THEN Resolved(Null)
  ELSE IF http.body = Unparsable THEN Rejected("SyntaxError")
  ELSE Resolved(Nullish(OptProp(http.body, "result"), Null))

\* Bodies of a gateway response that carry an error or a message, or neither.
ErrorBodies ==
  { Unparsable, Null, Obj(<<>>), Str("gateway down"), Arr(<<>>),
    O1("error", Str("boom")),
    O1("message", Str("overloaded")),
    O2("error", Str("boom"), "message", Str("overloaded")),
    O2("message", Str("overloaded"), "error", Str("boom")),
    O2("error", Str(""), "message", Str("overloaded")),
    O2("error", Null, "message", Str("overloaded")),
    O1("error", Str("")),
    O2("error", Num(0), "message", Str("")),
    O1("error", O1("code", Num(7))),
    O2("result", Null, "error", Str("boom")) }

\* Tool results the gateway delivers.
ToolResults ==
  { O1("sessions", Arr(<<RawMain>>)), O1("jobs", Arr(<<RawJob>>)), Arr(<<>>), Obj(<<>>),
    Arr(<< O1("id", Str("r1")) >>), Str("done"), Num(7), Bool(TRUE),
    O1("error", Str("tool failed")),
    O1("content", Arr(<<>>)),
    O1("content", Str("plain words")),
    O1("content", Arr(<< O1("type", Str("image")) >>)),
    O1("content", Arr(<< O2("type", Str("text"), "text", Str("plain words")) >>)) }

\* A tool result in the envelope {content: [{type, text}]}, its serialization as text.
Envelope(R) == O1("content", Arr(<< O2("type", Str("text"), "text", JsonText(R)) >>))

GatewayFetches ==
  { NetworkError("fetch failed"), NetworkError("socket hang up") }
  \cup { Http(status, body) : status \in {404, 500}, body \in ErrorBodies }
  \cup { Http(200, body) : body \in {Unparsable, Null, Obj(<<>>), O1("error", Str("boom"))} }
  \cup { Http(201, Wrapped(R)) : R \in ToolResults }
  \cup { Http(200, Enveloped(R)) : R \in ToolResults }

\* invokeGateway(tool, args) is called and its fetch, if one goes out, ends in http.
GatewayCalls == [to : {"invokeGateway"}, http : GatewayFetches]

\* A tool result is delivered, under the key result or as the whole body.
Deliveries == [to : {"deliver"}, payload : ToolResults, underResult : BOOLEAN]

Delivered(d, content) == Http(200, IF d.underResult THEN Wrapped(content) ELSE content)

InitGateway ==
  /\ gatewayUrl \in BOOLEAN
  /\ HandlersIdle
  /\ PageInitial
  /\ given \in GatewayCalls \cup {d \in Deliveries : gatewayUrl}
  /\ returned = NotReturned

\* What the handler awaiting the call sees: the value returned, or the exception.
Awaited(r) == IF r.raised THEN [ok |-> FALSE, result |-> Undefined, raised |-> r.error]
              ELSE [ok |-> r.value # Null, result |-> r.value]

\* The gateway clients of the repository, by the route they serve.
Clients == {"telemetry", "cron", "background", "backgroundV1"}

ClientReturns(c, http) ==
  CASE c = "telemetry" -> invokeGateway(gatewayUrl, http)
    [] c = "cron" -> invokeGatewayCron(gatewayUrl, http)
    [] c = "background" -> Awaited(invokeGatewayBackground(gatewayUrl, http))
    [] c = "backgroundV1" -> Awaited(invokeGatewayBackgroundV1(gatewayUrl, http))

\* What client c returns for the call or the delivery given.
Returned(c) ==
  IF given.to = "invokeGateway"
  THEN [by |-> c, value |-> ClientReturns(c, IF gatewayUrl THEN given.http ELSE NoFetch)]
  ELSE [by |-> c,
        bare |-> ClientReturns(c, Delivered(given, given.payload)),
        enveloped |-> ClientReturns(c, Delivered(given, Envelope(given.payload)))]

handlers == <<route, pc, client, telemetryLocals, otherLocals, response>>

InvokeGatewayReturns ==
  /\ returned = NotReturned
  /\ returned' = Returned("telemetry")
  /\ UNCHANGED <<gatewayUrl, given, handlers, page>>

InvokeGatewayCronReturns ==
  /\ returned = NotReturned
  /\ returned' = Returned("cron")
  /\ UNCHANGED <<gatewayUrl, given, handlers, page>>

InvokeGatewayBackgroundReturns ==
  /\ returned = NotReturned
  /\ returned' = Returned("background")
  /\ UNCHANGED <<gatewayUrl, given, handlers, page>>

InvokeGatewayBackgroundV1Returns ==
  /\ returned = NotReturned
  /\ returned' = Returned("backgroundV1")
  /\ UNCHANGED <<gatewayUrl, given, handlers, page>>

NextGateway ==
  \/ InvokeGatewayReturns
  \/ InvokeGatewayCronReturns
  \/ InvokeGatewayBackgroundReturns
  \/ InvokeGatewayBackgroundV1Returns

SpecGateway == InitGateway /\ [][NextGateway]_vars

\* The telemetry client has returned from a call whose fetch got an HTTP response.
TelemetryClientAnswered ==
  /\ returned.by = "telemetry"
  /\ given.to = "invokeGateway"
  /\ gatewayUrl
  /\ given.http.kind = "response"

\* The value under key k of a response body, when the body is an object that has the key.
HasKey(body, k) == body.t = "object" /\ \E i \in 1..Len(body.o) : body.o[i][1] = k
ValueAt(body, k) == body.o[CHOOSE i \in 1..Len(body.o) : body.o[i][1] = k][2]

\* A field that is there and is not empty, null, zero or false.
Filled(body, k) == HasKey(body, k) /\ Truthy(ValueAt(body, k))

\* C11 as stated: for a non-2xx response the error of invokeGateway is the
\* body's error field if the body has one, otherwise its message field if it
\* has one, otherwise the status line; a 2xx response whose body does not
\* parse gives ok:true with a null result.
C11_ErrorFromPresentField ==
  TelemetryClientAnswered =>
    LET http == given.http
        r == returned.value
    IN IF ~ResponseOk(http)
       THEN /\ ~r.ok
            /\ r.error = IF HasKey(http.body, "error") THEN ValueAt(http.body, "error")
                         ELSE IF HasKey(http.body, "message") THEN ValueAt(http.body, "message")
                         ELSE StatusLine(http.status)
       ELSE http.body = Unparsable => (r.ok /\ r.result = Null)

\* C11 amended: for a non-2xx response the error of invokeGateway is the
\* body's error field if it is there and not empty, null, zero or false,
\* otherwise the message field under the same condition, otherwise the
\* status line; a 2xx response whose body does not parse gives ok:true with
\* a null result.
C11_ErrorFromFilledField ==
  TelemetryClientAnswered =>
    LET http == given.http
        r == returned.value
    IN IF ~ResponseOk(http)
       THEN /\ ~r.ok
            /\ r.error = IF Filled(http.body, "error") THEN ValueAt(http.body, "error")
                         ELSE IF Filled(http.body, "message") THEN ValueAt(http.body, "message")
                         ELSE StatusLine(http.status)
       ELSE http.body = Unparsable => (r.ok /\ r.result = Null)

\* A non-2xx response with a filled message and an empty error has been answered.
C11_MessageTakenOverEmptyError ==
  /\ TelemetryClientAnswered
  /\ ~ResponseOk(given.http)
  /\ HasKey(given.http.body, "error")
  /\ ~Filled(given.http.body, "error")
  /\ returned.value.error = Str("overloaded")

\* C12: every invokeGateway call of a request makes one network request when
\* the URL is configured and none otherwise, and no call of a request is made
\* a second time in that request, whatever the first one ended in.
C12_OneAttemptPerCall ==
  /\ fetches = (IF gatewayUrl THEN Len(calls) ELSE 0)
  /\ \A i, j \in 1..Len(calls) :
       (calls[i].tool = calls[j].tool /\ calls[i].args = calls[j].args) => i = j

\* A request went on to other calls after a call of it had failed, the URL configured.
C12_WentOnAfterFailure ==
  /\ gatewayUrl
  /\ route \in {"telemetry", "cron"}
  /\ Len(calls) >= 3
  /\ fetches = 3
  /\ calls[1].outcome = "rejected"
  /\ calls[2].outcome = "rejected"

\* The telemetry client has returned from a call for which a fetch went out.
TelemetryClientAttempted ==
  /\ returned.by = "telemetry"
  /\ given.to = "invokeGateway"
  /\ gatewayUrl

\* C13: whatever invokeGateway returns after a network attempt carries a
\* latencyMs value, the attempt ending in a 2xx response, a non-2xx response
\* or a network exception.
C13_LatencyWhateverTheOutcome ==
  TelemetryClientAttempted => returned.value.latencyMs # Undefined

\* C14: every gateway client returns for a tool result delivered in the
\* envelope {content: [{text}]} what it returns for the same result delivered
\* bare, and the value it returns for the envelope is the result itself.
C14_EnvelopeIsTransparent ==
  (given.to = "deliver" /\ returned.by \in Clients) =>
    /\ returned.enveloped = returned.bare
    /\ given.underResult => returned.enveloped.result = given.payload

\* ------------------------------------------------------------ the dashboard

\* The delay of setInterval(fetchTelemetry, 5000).
IntervalMs == 5000

\* The page is followed until one interval after the last tick.
Horizon == (MaxTicks + 1) * IntervalMs

\* What fetch("/api/telemetry") ends in: a snapshot, a status that is not 2xx,
\* a body that response.json() rejects, or no response at all.
TelemetryReplies ==
  { [kind |-> "snapshot", available |-> TRUE, message |-> Null],
    [kind |-> "snapshot", available |-> FALSE, message |-> Null],
    [kind |-> "status", available |-> FALSE, message |-> Template(<<Str("HTTP "), Num(500)>>)],
    [kind |-> "unparsable", available |-> FALSE, message |-> Str("Unexpected end of JSON input")],
    [kind |-> "network", available |-> FALSE, message |-> Str("Failed to fetch")] }

Pending(calls_) == {i \in 1..Len(calls_) : calls_[i].state = "pending"}

\* fetchTelemetry() is called: the request goes out.
fetchTelemetry(cause) ==
  requests' = Append(requests, [cause |-> cause, state |-> "pending"])

\* The effect of the component runs as it mounts.
Mount ==
  /\ dashboard = "initial"
  /\ dashboard' = "mounted"
  /\ fetchTelemetry("mount")
  /\ interval' = TRUE
  /\ UNCHANGED <<clock, lastArrived, telemetry, connected, lastUpdate, pageError, reruns, cronAction,
                 cronActionTimers>>
  /\ UNCHANGED <<gatewayUrl, given, returned, handlers>>

Tick_waitsForPending ==
  /\ interval
  /\ clock < MaxTicks * IntervalMs
  /\ clock' = clock + IntervalMs
  /\ IF Pending(requests) = {} THEN fetchTelemetry("tick") ELSE UNCHANGED requests
  /\ UNCHANGED <<dashboard, interval, lastArrived, telemetry, connected, lastUpdate, pageError, reruns,
                 cronAction, cronActionTimers>>
  /\ UNCHANGED <<gatewayUrl, given, returned, handlers>>

\* The interval elapses and its callback runs.
Tick ==
  /\ interval
  /\ clock < MaxTicks * IntervalMs
  /\ clock' = clock + IntervalMs
  /\ fetchTelemetry("tick")
  /\ UNCHANGED <<dashboard, interval, lastArrived, telemetry, connected, lastUpdate, pageError, reruns,
                 cronAction, cronActionTimers>>
  /\ UNCHANGED <<gatewayUrl, given, returned, handlers>>

\* The component unmounts: the cleanup of the effect clears the interval.
Unmount ==
  /\ dashboard = "mounted"
  /\ dashboard' = "unmounted"
  /\ interval' = FALSE
  /\ UNCHANGED <<clock, requests, lastArrived, telemetry, connected, lastUpdate, pageError, reruns,
                 cronAction, cronActionTimers>>
  /\ UNCHANGED <<gatewayUrl, given, returned, handlers>>

\* Time passes with no interval set.
Pass ==
  /\ dashboard = "unmounted"
  /\ ~interval
  /\ clock + IntervalMs <= Horizon
  /\ clock' = clock + IntervalMs
  /\ UNCHANGED <<dashboard, interval, requests, lastArrived, telemetry, connected, lastUpdate,
                 pageError, reruns, cronAction, cronActionTimers>>
  /\ UNCHANGED <<gatewayUrl, given, returned, handlers>>

\* The state after the continuation of fetchTelemetry for request i and its reply.
\* React drops the state updates of a component that has unmounted.
Applied(i, reply) ==
  IF dashboard # "mounted"
  THEN UNCHANGED <<telemetry, connected, lastUpdate, pageError>>
  ELSE IF reply.kind = "snapshot"
  THEN /\ telemetry' = [request |-> i, available |-> reply.available]
       /\ connected' = reply.available
       /\ lastUpdate' = Num(clock)
       /\ pageError' = Null
  ELSE /\ connected' = FALSE
       /\ pageError' = reply.message
       /\ UNCHANGED <<telemetry, lastUpdate>>

settleTelemetry_clearsOnFailure(i, reply) ==
  IF dashboard = "mounted" /\ reply.kind # "snapshot"
  THEN /\ telemetry' = Null
       /\ connected' = FALSE
       /\ pageError' = reply.message
       /\ UNCHANGED lastUpdate
  ELSE Applied(i, reply)

settleTelemetry_latestOnly(i, reply) ==
  IF dashboard = "mounted" /\ telemetry # Null /\ telemetry.request > i
  THEN UNCHANGED <<telemetry, connected, lastUpdate, pageError>>
  ELSE Applied(i, reply)

\* The continuation of fetchTelemetry after its awaits, or its catch block.
settleTelemetry(i, reply) == Applied(i, reply)

\* The response to a telemetry request arrives, or the request fails.
TelemetryArrives ==
  \E i \in Pending(requests), reply \in TelemetryReplies :
    /\ requests' = [requests EXCEPT ![i].state = IF reply.kind = "snapshot" THEN "applied" ELSE "failed"]
    /\ lastArrived' = IF reply.kind = "snapshot" THEN i ELSE lastArrived
    /\ settleTelemetry(i, reply)
    /\ UNCHANGED <<dashboard, interval, clock, reruns, cronAction, cronActionTimers>>
    /\ UNCHANGED <<gatewayUrl, given, returned, handlers>>

\* setCronAction(text) of a component that may have unmounted.
setCronAction(text) == cronAction' = IF dashboard = "mounted" THEN text ELSE cronAction

\* The rerun button of a job of the snapshot is clicked.
HandleCronRun ==
  /\ dashboard = "mounted"
  /\ telemetry # Null
  /\ Len(reruns) < MaxReruns
  /\ reruns' = Append(reruns, [state |-> "pending"])
  /\ setCronAction(Template(<<Str("Rerunning "), Str("nightly"), Str("...")>>))
  /\ UNCHANGED <<dashboard, interval, clock, requests, lastArrived, telemetry, connected, lastUpdate,
                 pageError, cronActionTimers>>
  /\ UNCHANGED <<gatewayUrl, given, returned, handlers>>

\* The POST of handleCronRun is answered: a 2xx response is followed by fetchTelemetry().
CronRunArrives ==
  \E i \in Pending(reruns), ok \in BOOLEAN :
    /\ reruns' = [reruns EXCEPT ![i].state = IF ok THEN "triggered" ELSE "failed"]
    /\ IF ok
       THEN /\ setCronAction(Template(<<Str("Triggered "), Str("nightly")>>))
            /\ fetchTelemetry("rerun")
       ELSE /\ setCronAction(Template(<<Str("HTTP "), Num(500)>>))
            /\ UNCHANGED requests
    /\ cronActionTimers' = cronActionTimers + 1
    /\ UNCHANGED <<dashboard, interval, clock, lastArrived, telemetry, connected, lastUpdate, pageError>>
    /\ UNCHANGED <<gatewayUrl, given, returned, handlers>>

\* A setTimeout of handleCronRun elapses.
CronActionClears ==
  /\ cronActionTimers > 0
  /\ cronActionTimers' = cronActionTimers - 1
  /\ setCronAction(Null)
  /\ UNCHANGED <<dashboard, interval, clock, requests, lastArrived, telemetry, connected, lastUpdate,
                 pageError, reruns>>
  /\ UNCHANGED <<gatewayUrl, given, returned, handlers>>

InitDashboard ==
  /\ gatewayUrl = TRUE
  /\ HandlersIdle
  /\ given = NotGiven
  /\ returned = NotReturned
  /\ PageInitial

NextDashboard ==
  \/ Mount
  \/ Tick
  \/ Unmount
  \/ Pass
  \/ TelemetryArrives
  \/ HandleCronRun
  \/ CronRunArrives
  \/ CronActionClears

SpecDashboard == InitDashboard /\ [][NextDashboard]_vars

\* The telemetry requests started for a cause.
StartedBy(cause) == Cardinality({i \in 1..Len(requests) : requests[i].cause = cause})

\* While mounted the page has started one fetch at mount and one at every
\* interval elapsed since, whatever has become of the earlier ones.
FetchPerTick ==
  /\ dashboard # "initial" => StartedBy("mount") = 1
  /\ dashboard = "mounted" => (interval /\ StartedBy("tick") = clock \div IntervalMs)

\* No request in flight is withdrawn.
NoneCancelled ==
  /\ Len(requests') >= Len(requests)
  /\ \A i \in 1..Len(requests) : requests[i].state # "pending" => requests'[i] = requests[i]
  /\ \A i \in 1..Len(requests) : requests'[i].cause = requests[i].cause

\* C15 as stated: while the dashboard is mounted one fetch starts at mount and
\* one more at every 5-second tick, whether or not earlier fetches have
\* completed; once it has unmounted the interval is cleared and no fetch is
\* started any more, and no fetch in flight is cancelled.
C15_NoFetchAfterUnmount ==
  /\ []FetchPerTick
  /\ [][NoneCancelled]_vars
  /\ [][dashboard = "unmounted" => (~interval /\ Len(requests') = Len(requests))]_vars

\* C15 amended: as stated, except that after the unmount it is the timer that
\* starts no fetch any more.
C15_NoTickAfterUnmount ==
  /\ []FetchPerTick
  /\ [][NoneCancelled]_vars
  /\ [][dashboard = "unmounted" => (~interval /\ StartedBy("tick")' = StartedBy("tick"))]_vars

\* A tick started its fetch with the fetch of the mount still in flight and was
\* answered first; the component unmounted and an interval went by with no tick.
C15_TicksOverlapThenUnmount ==
  /\ dashboard = "unmounted"
  /\ StartedBy("tick") >= 1
  /\ StartedBy("tick") * IntervalMs < clock
  /\ Len(requests) >= 2
  /\ requests[1].state = "pending"
  /\ requests[2].cause = "tick"
  /\ requests[2].state = "applied"

\* C16: the snapshot the mounted dashboard displays is that of the successful
\* response that arrived last, whichever request it answers; no request waits
\* for, or gives way to, another.
C16_LastArrivalIsDisplayed ==
  dashboard = "mounted" =>
    IF lastArrived = 0 THEN telemetry = Null
    ELSE telemetry # Null /\ telemetry.request = lastArrived

\* The response to the first request arrived after the response to the second
\* and replaced its snapshot.
C16_OlderSnapshotOverwroteNewer ==
  /\ dashboard = "mounted"
  /\ Len(requests) >= 2
  /\ requests[1].state = "applied"
  /\ requests[2].state = "applied"
  /\ telemetry # Null
  /\ telemetry.request = 1

\* The place of a call in the order sessions_list, sessions_history,
\* session_status, cron list, cron runs, cron run; 0 for any other call.
Rank(call) ==
  CASE call.tool = "sessions_list" -> 1
    [] call.tool = "sessions_history" -> 2
    [] call.tool = "session_status" -> 3
    [] call.tool = "cron" /\ ActionOf(call) = Str("list") -> 4
    [] call.tool = "cron" /\ ActionOf(call) = Str("runs") -> 5
    [] call.tool = "cron" /\ ActionOf(call) = Str("run") -> 6
    [] OTHER -> 0

Ranks == {Rank(calls[i]) : i \in 1..Len(calls)}

\* The calls that are not short-circuited: the two session calls need a usable
\* sessions_list with a session in it, cron run needs cron runs to have failed.
RanksDue ==
  {1, 4, 5}
  \cup (IF gatewayAvailable /\ Len(sessions.a) > 0 THEN {2, 3} ELSE {})
  \cup (IF \E i \in 1..Len(calls) : Rank(calls[i]) = 5 /\ calls[i].outcome = "rejected" THEN {6} ELSE {})

\* One call at a time, each after the previous one has returned, in the order of the ranks.
OneAtATimeInOrder ==
  /\ \A i \in 1..(Len(calls) - 1) : calls[i].outcome # "pending"
  /\ \A i \in 1..Len(calls) : Rank(calls[i]) # 0
  /\ \A i, j \in 1..Len(calls) : i < j => Rank(calls[i]) < Rank(calls[j])

\* C17: within one telemetry request the gateway calls are issued one at a
\* time, none before the previous one has returned, in the order sessions_list,
\* sessions_history, session_status, cron list, cron runs, cron run, and when
\* the request is over the only calls not made are the short-circuited ones.
C17_CallsInOrderNoneSkipped ==
  route = "telemetry" =>
    /\ OneAtATimeInOrder
    /\ pc \in {"done", "thrown"} => Ranks = RanksDue

\* ------------------------------------------- the normalizers on their own

\* Sessions as sessions_list returns them.
RawSessions ==
  { O1("session_id", Str("agent:main:main")),
    O1("session_id", Str("agent:main:subagent:7")),
    O1("session_id", Str("")),
    O1("session_id", Num(7)),
    O2("key", Str("agent:other:x"), "label", Str("main")),
    O1("key", Str("agent:main:main:thread:1")),
    O2("key", Str("agent:main:subagent:7"), "session_id", Str("agent:main:main")),
    O2("key", Str("agent:main:subagent:7"), "label", Str("main")) }

SessionListings == { O1("sessions", Arr(list)) : list \in SeqsUpTo(RawSessions, MaxSessions) }

\* Results with a field missing or malformed, a value that is no list under the
\* list key, or a list element that is null or no object.
MalformedResults ==
  { Null, Obj(<<>>), Str("down"), Num(7), Arr(<<>>), Arr(<<Null>>), Arr(<<Num(1)>>),
    Arr(<< O1("id", Obj(<<>>)) >>),
    O1("sessions", Obj(<<>>)), O1("sessions", Str("none")), O1("sessions", Arr(<<Null>>)),
    O1("sessions", Arr(<<Num(1)>>)), O1("sessions", Arr(<< O1("key", Arr(<<>>)) >>)),
    O1("history", Num(3)), O1("history", Arr(<<Null>>)), O1("history", Arr(<<Str("hello")>>)),
    O1("history", Arr(<< O1("content", Arr(<<Null>>)) >>)),
    O1("history", Arr(<< O2("role", Num(1), "content", Arr(<<Str("text")>>)) >>)),
    O1("messages", Str("none")),
    O1("jobs", Obj(<<>>)), O1("jobs", Arr(<<Null>>)), O1("jobs", Arr(<< O1("schedule", Str("hourly")) >>)),
    O1("jobs", Arr(<< O1("state", Num(1)) >>)),
    O1("runs", Num(7)), O1("runs", Arr(<<Null>>)), O1("runs", Arr(<< O1("status", Null) >>)),
    O1("items", Arr(<<Null>>)), O1("items", Arr(<<Bool(FALSE)>>)), O1("items", Obj(<<>>)),
    O1("processes", Arr(<<Null>>)), O1("queues", Arr(<<Null>>)), O1("events", Arr(<<Null>>)),
    O1("data", Arr(<< O1("id", Null) >>)) }

\* string.includes(':subagent:') for the strings of the model.
includesSubagent(key) ==
  "s" \in DOMAIN key /\ key.s \in {"agent:main:subagent:7"}

operator_mainMainOnly(list) ==
  LET hits == {i \in 1..Len(list) : includesMainMain(list[i].key)}
  IN IF hits = {} THEN Undefined ELSE list[CHOOSE i \in hits : \A j \in hits : i <= j]

\* sessions.find((s) => s.key.includes(":main:main") || s.label === "main")
operator(list) ==
  LET hits == {i \in 1..Len(list) : includesMainMain(list[i].key) \/ list[i].label = Str("main")}
  IN IF hits = {} THEN Undefined ELSE list[CHOOSE i \in hits : \A j \in hits : i <= j]

\* sessions.filter((s) => s.key.includes(":subagent:"))
subagents(list) == SelectSeq(list, LAMBDA session : includesSubagent(session.key))

\* telemetry?.sessions?.sessions || [] of the snapshot the route serves for a
\* sessions_list result; no snapshot arrives when the route answers 500.
sessionsShown(result) ==
  IF ~usable(Success(result, Elapsed, Num(200))) \/ normalizeSessions(result) = TypeError THEN <<>>
  ELSE normalizeSessions(result).a

\* terminal.sourceSession of that snapshot: mainSession?.key || null.
sourceSessionServed(result) ==
  LET main == mainSessionOf(Arr(sessionsShown(result)))
  IN IF main = Undefined THEN Null ELSE Or(main.key, Null)

\* History entries: with and without tool_calls, tagged chunks and a system role.
ToolCallsOfEntry == { Undefined, Arr(<<>>), Arr(<< O1("function", O1("name", Str("exec"))) >>) }

ContentsOfEntry ==
  { Undefined, Str("restarted"), Str(""), Arr(<<>>),
    Arr(<< O2("type", Str("text"), "text", Str("thinking")) >>),
    Arr(<< O2("type", Str("toolCall"), "name", Str("exec")) >>),
    Arr(<< O3("type", Str("toolResult"), "name", Str("exec"), "content", Str("ok")) >>),
    Arr(<< O2("type", Str("toolCall"), "name", Str("exec")),
           O2("type", Str("text"), "text", Str("thinking")),
           O3("type", Str("toolResult"), "name", Str("exec"), "content", Str("ok")) >>) }

RolesOfEntry == { Undefined, Str("system"), Str("assistant") }

HistoryEntries ==
  { O3("role", role, "content", content, "tool_calls", toolCalls) :
      role \in RolesOfEntry, content \in ContentsOfEntry, toolCalls \in ToolCallsOfEntry }

Histories == { O1("history", Arr(<<entry>>)) : entry \in HistoryEntries }

\* A normalizer is called with the result of a gateway call.
NormalizerCalls == [to : {"normalize"}, result : SessionListings \cup MalformedResults \cup Histories]

InitNormalizers ==
  /\ gatewayUrl = TRUE
  /\ HandlersIdle
  /\ PageInitial
  /\ given \in NormalizerCalls
  /\ returned = NotReturned

\* A normalizer is applied to the result given: it returns a list, or raises
\* when its value is TypeError.
NormalizeSessionsReturns ==
  /\ returned = NotReturned
  /\ returned' = [by |-> "normalizeSessions", value |-> normalizeSessions(given.result)]
  /\ UNCHANGED <<gatewayUrl, given, handlers, page>>

NormalizeHistoryReturns ==
  /\ returned = NotReturned
  /\ returned' = [by |-> "normalizeHistory", value |-> normalizeHistory(given.result, Str("main"))]
  /\ UNCHANGED <<gatewayUrl, given, handlers, page>>

NormalizeProcessesReturns ==
  /\ returned = NotReturned
  /\ returned' = [by |-> "normalizeProcesses", value |-> normalizeProcesses(given.result)]
  /\ UNCHANGED <<gatewayUrl, given, handlers, page>>

NormalizeCronJobsReturns ==
  /\ returned = NotReturned
  /\ returned' = [by |-> "normalizeCronJobs", value |-> normalizeCronJobs(given.result)]
  /\ UNCHANGED <<gatewayUrl, given, handlers, page>>

NormalizeCronRunsReturns ==
  /\ returned = NotReturned
  /\ returned' = [by |-> "normalizeCronRuns", value |-> normalizeCronRuns(given.result)]
  /\ UNCHANGED <<gatewayUrl, given, handlers, page>>

NormalizeCronJobsV1Returns ==
  /\ returned = NotReturned
  /\ returned' = [by |-> "normalizeCronJobsV1", value |-> normalizeCronJobsV1(given.result)]
  /\ UNCHANGED <<gatewayUrl, given, handlers, page>>

NormalizeCronRunsV1Returns ==
  /\ returned = NotReturned
  /\ returned' = [by |-> "normalizeCronRunsV1", value |-> normalizeCronRunsV1(given.result)]
  /\ UNCHANGED <<gatewayUrl, given, handlers, page>>

NormalizeQueuesReturns ==
  /\ returned = NotReturned
  /\ returned' = [by |-> "normalizeQueues", value |-> normalizeQueues(given.result)]
  /\ UNCHANGED <<gatewayUrl, given, handlers, page>>

NormalizeEventsReturns ==
  /\ returned = NotReturned
  /\ returned' = [by |-> "normalizeEvents", value |-> normalizeEvents(given.result)]
  /\ UNCHANGED <<gatewayUrl, given, handlers, page>>

NormalizeUsageReturns ==
  /\ returned = NotReturned
  /\ returned' = [by |-> "normalizeUsage", value |-> normalizeUsage(given.result)]
  /\ UNCHANGED <<gatewayUrl, given, handlers, page>>

\* The dashboard renders the sessions of the snapshot served for the result.
DashboardShows ==
  /\ returned = NotReturned
  /\ returned' = [by |-> "Dashboard", value |-> sessionsShown(given.result),
                  operator |-> operator(sessionsShown(given.result)),
                  subagents |-> subagents(sessionsShown(given.result)),
                  sourceSession |-> sourceSessionServed(given.result)]
  /\ UNCHANGED <<gatewayUrl, given, handlers, page>>

NextNormalizers ==
  \/ NormalizeSessionsReturns
  \/ NormalizeHistoryReturns
  \/ NormalizeProcessesReturns
  \/ NormalizeCronJobsReturns
  \/ NormalizeCronRunsReturns
  \/ NormalizeCronJobsV1Returns
  \/ NormalizeCronRunsV1Returns
  \/ NormalizeQueuesReturns
  \/ NormalizeEventsReturns
  \/ NormalizeUsageReturns
  \/ DashboardShows

SpecNormalizers == InitNormalizers /\ [][NextNormalizers]_vars

\* The dashboard shows the sessions of a sessions_list result.
SessionsAreShown == returned.by = "Dashboard" /\ given.result \in SessionListings

\* The sessions sessions_list returned, as returned.
RawList == Lookup(given.result.o, "sessions").a

\* The raw session has a session_id and nothing else.
OnlySessionId(raw) == Len(raw.o) = 1 /\ raw.o[1][1] = "session_id"

Among(session, list) == \E i \in 1..Len(list) : list[i] = session

OperatorLike(session) == includesMainMain(session.key) \/ session.label = Str("main")

NormalizerReturned == returned.by \notin {"none", "Dashboard"} /\ given.to = "normalize"

\* C19: every normalizer returns a list for any gateway result and raises
\* nothing, be a field malformed or missing, the value under the list key no
\* array, or a list element null or no object.
C19_NormalizersAreTotal ==
  NormalizerReturned => (returned.value # TypeError /\ IsArray(returned.value))

\* normalizeHistory has returned the items of a history of one entry.
OneEntryNormalized == returned.by = "normalizeHistory" /\ given.result \in Histories

TheEntry == Lookup(given.result.o, "history").a[1]

\* The three conditions, read off the entry.
HasToolCalls(entry) ==
  LET toolCalls == Lookup(entry.o, "tool_calls") IN IsArray(toolCalls) /\ toolCalls.a # <<>>

TaggedChunks(entry) ==
  LET content == Lookup(entry.o, "content")
  IN IF ~IsArray(content) THEN {}
     ELSE {i \in 1..Len(content.a) : Lookup(content.a[i].o, "type") \in {Str("toolCall"), Str("toolResult")}}

IsSystemWithText(entry) ==
  LET content == Lookup(entry.o, "content")
  IN /\ Lookup(entry.o, "role") = Str("system")
     /\ \/ content.t = "string" /\ content # Str("")
        \/ IsArray(content) /\ \E i \in 1..Len(content.a) : Truthy(Lookup(content.a[i].o, "text"))

\* The rule an item was synthesized by: 1 for tool_calls, 2 for a tagged chunk, 3 for the system role.
RuleOf(item) ==
  IF item.type = "system" THEN 3
  ELSE IF item.type = "tool_call" /\ "tpl" \in DOMAIN item.detail /\ item.detail.tpl[1] = Str("tools: ") THEN 1
  ELSE 2

RulesApplied == [i \in 1..Len(returned.value.a) |-> RuleOf(returned.value.a[i])]
Repeat(n, x) == [i \in 1..n |-> x]

\* C20 as stated: the items of one entry all come from a single rule, the
\* first in order that the entry matches, and an entry matching none of the
\* rules yields no item.
C20_ExactlyOneRule ==
  OneEntryNormalized =>
    LET first == IF HasToolCalls(TheEntry) THEN 1
                 ELSE IF TaggedChunks(TheEntry) # {} THEN 2
                 ELSE IF IsSystemWithText(TheEntry) THEN 3 ELSE 0
    IN /\ first = 0 <=> returned.value.a = <<>>
       /\ \A i \in 1..Len(returned.value.a) : RulesApplied[i] = first

\* C20 amended: the three rules are applied in order and independently of
\* each other; an entry yields the items of every rule it matches, one for its
\* tool_calls, one for each tagged chunk and one for a system role with text,
\* in that order, and an entry matching none of the rules yields no item.
C20_EveryMatchingRule ==
  OneEntryNormalized =>
    RulesApplied = (IF HasToolCalls(TheEntry) THEN <<1>> ELSE <<>>)
                   \o Repeat(Cardinality(TaggedChunks(TheEntry)), 2)
                   \o (IF IsSystemWithText(TheEntry) THEN <<3>> ELSE <<>>)

\* An entry that matches the three rules has yielded the items of all of them.
C20_ThreeRulesOneEntry ==
  /\ OneEntryNormalized
  /\ RulesApplied = <<1, 2, 2, 3>>

\* -------------------------------------------- the coercions on their own

\* Values a gateway payload can hold where a coercion or normalizeArray reads.
CoercionInputs ==
  { Undefined, Null, Bool(TRUE), Bool(FALSE), Num(0), Num(1), Num(42), Infinity,
    Str(""), Str(" "), Str("0"), Str("42"), Str(" 7 "), Str("1e999"), Str("abc"), Str("true"),
    Str("2024-01-01T00:00:00Z"), Str("2024-01-01T00:00:30.000Z"),
    Str("Mon, 01 Jan 2024 00:00:00 GMT"), Str("next tuesday"),
    Arr(<<>>), Arr(<<Num(1)>>), Arr(<<Null, Str("x")>>), Obj(<<>>),
    O2("sessions", Arr(<<Num(1)>>), "data", Arr(<<Num(2)>>)),
    O2("data", Arr(<<Num(2)>>), "sessions", Arr(<<Num(1)>>)),
    O2("sessions", Str("none"), "items", Arr(<<Num(3)>>)),
    O2("records", Arr(<<>>), "data", Arr(<<Num(2)>>)),
    O2("queues", Null, "processes", O1("data", Arr(<<Num(4)>>))),
    O3("events", Arr(<<Num(5)>>), "jobs", Arr(<<Num(6)>>), "runs", Arr(<<Num(7)>>)),
    O1("results", Arr(<<Num(8)>>)), O1("data", Obj(<<>>)), O1("length", Num(0)) }

CoercionCalls == [to : {"coerce"}, value : CoercionInputs]

NormalizeArrayReturns ==
  /\ given.to = "coerce"
  /\ returned = NotReturned
  /\ returned' = [by |-> "normalizeArray", value |-> normalizeArray(given.value)]
  /\ UNCHANGED <<gatewayUrl, given, handlers, page>>

CoerceStringReturns ==
  /\ given.to = "coerce"
  /\ returned = NotReturned
  /\ returned' = [by |-> "coerceString", value |-> coerceString(given.value)]
  /\ UNCHANGED <<gatewayUrl, given, handlers, page>>

CoerceNumberReturns ==
  /\ given.to = "coerce"
  /\ returned = NotReturned
  /\ returned' = [by |-> "coerceNumber", value |-> coerceNumber(given.value)]
  /\ UNCHANGED <<gatewayUrl, given, handlers, page>>

CoerceTimestampReturns ==
  /\ given.to = "coerce"
  /\ returned = NotReturned
  /\ returned' = [by |-> "coerceTimestamp", value |-> coerceTimestamp(given.value)]
  /\ UNCHANGED <<gatewayUrl, given, handlers, page>>

\* Sessions as the gateway lists them: last updated at 00:00:00, 00:00:30 or
\* 00:01:00 of 2024-01-01, or with no usable time; with or without a thinking level.
UpdateMarks ==
  { <<>>, << <<"updated_at", Str("2024-01-01T00:00:00Z")>> >>,
    << <<"updated_at", Str("next tuesday")>>, <<"updatedAt", Str("2024-01-01T00:00:30Z")>> >>,
    << <<"lastActivity", Str("2024-01-01T00:01:00.000Z")>> >>,
    << <<"updated_at", Num(0)>> >> }

ThinkingMarks ==
  { <<>>, << <<"thinking_level", Str("high")>> >>, << <<"thinkingLevel", Str("")>> >>,
    << <<"thinking_level", Str("")>>, <<"thinkingLevel", Str("low")>> >>,
    << <<"thinkingLevel", Num(0)>> >> }

\* Date.now() of the browser: from 31 seconds before the latest update to 30 seconds after it.
BrowserClocks == {1704067229, 1704067230, 1704067259, 1704067260, 1704067290}

AgentStateCalls ==
  [to : {"getAgentState"},
   raw : {Obj(<< <<"key", Str("agent:main:main")>> >> \o u \o t) : u \in UpdateMarks, t \in ThinkingMarks},
   now : BrowserClocks]

\* The page computes the state of a session the telemetry route has normalized.
GetAgentStateReturns ==
  /\ given.to = "getAgentState"
  /\ returned = NotReturned
  /\ returned' = [by |-> "getAgentState", session |-> normalizeSession(given.raw),
                  value |-> getAgentState(normalizeSession(given.raw), given.now)]
  /\ UNCHANGED <<gatewayUrl, given, handlers, page>>

\* List elements whose fields come in several spellings, some holding 0, ""
\* or a value that coerces to nothing.
SpelledRecords ==
  { Obj(<<>>),
    O2("total_tokens", Num(0), "totalTokens", Num(42)),
    O1("total_tokens", Num(0)),
    O2("total_tokens", Str("abc"), "totalTokens", Num(42)),
    O2("totalTokens", Num(42), "total_tokens", Num(1)),
    O2("thinking_level", Str(""), "thinkingLevel", Str("low")),
    O2("thinking_level", Bool(FALSE), "thinkingLevel", Str("low")),
    O2("depth", Num(0), "size", Num(42)),
    O1("depth", Num(0)),
    O2("size", Str("42"), "count", Num(1)),
    O3("depth", Str(" "), "size", Null, "count", Num(0)),
    O2("inflight", Infinity, "in_progress", Num(1)),
    O2("cpu", Num(0), "cpu_pct", Num(42)),
    O2("cpu", Str("0"), "memory", Num(0)),
    O2("cpu_pct", Str("42"), "mem_mb", Num(1)),
    O2("updated_at", Str("next tuesday"), "updatedAt", Str("2024-01-01T00:00:30Z")),
    O2("lastActivity", Str("2024-01-01T00:01:00.000Z"), "updated_at", Str("2024-01-01T00:00:00Z")),
    O2("last_activity", Str("Mon, 01 Jan 2024 00:00:00 GMT"), "lastActivity", Str("2024-01-01T00:00:30Z")),
    O2("updated_at", Str(""), "last_updated", Str("2024-01-01T00:00:30.000Z")),
    O2("updated_at", Num(0), "updatedAt", Num(1)) }

FieldCalls == [to : {"normalizeFields"}, record : SpelledRecords]

\* The map callbacks of normalizeSessions, normalizeQueues and
\* normalizeProcesses are applied to one list element.
NormalizeSessionReturns ==
  /\ given.to = "normalizeFields"
  /\ returned = NotReturned
  /\ returned' = [by |-> "normalizeSession", value |-> normalizeSession(given.record)]
  /\ UNCHANGED <<gatewayUrl, given, handlers, page>>

NormalizeQueueReturns ==
  /\ given.to = "normalizeFields"
  /\ returned = NotReturned
  /\ returned' = [by |-> "normalizeQueue", value |-> normalizeQueue(given.record)]
  /\ UNCHANGED <<gatewayUrl, given, handlers, page>>

NormalizeProcessReturns ==
  /\ given.to = "normalizeFields"
  /\ returned = NotReturned
  /\ returned' = [by |-> "normalizeProcess", value |-> normalizeProcess(given.record)]
  /\ UNCHANGED <<gatewayUrl, given, handlers, page>>

InitCoercions ==
  /\ gatewayUrl = TRUE
  /\ HandlersIdle
  /\ PageInitial
  /\ given \in CoercionCalls \cup AgentStateCalls \cup FieldCalls
  /\ returned = NotReturned

NextCoercions ==
  \/ NormalizeArrayReturns
  \/ CoerceStringReturns
  \/ CoerceNumberReturns
  \/ CoerceTimestampReturns
  \/ GetAgentStateReturns
  \/ NormalizeSessionReturns
  \/ NormalizeQueueReturns
  \/ NormalizeProcessReturns

SpecCoercions == InitCoercions /\ [][NextCoercions]_vars

\* The keys normalizeArray is said to probe, in the order of their priority.
ProbedKeys == <<"sessions", "items", "runs", "jobs", "events", "processes", "queues", "records", "data">>

\* The places in ProbedKeys of the keys under which the value holds an array.
HoldingArray(value) ==
  IF value.t # "object" THEN {}
  ELSE {i \in 1..Len(ProbedKeys) : Lookup(value.o, ProbedKeys[i]).t = "array"}

\* C21: normalizeArray returns an array argument itself; for an object, the
\* array under the first of the keys sessions, items, runs, jobs, events,
\* processes, queues, records, data that holds an array; and an empty array
\* for every other value, null and objects with no such key included.
C21_FirstArrayInKeyOrder ==
  (given.to = "coerce" /\ returned.by = "normalizeArray") =>
    IF given.value.t = "array" THEN returned.value = given.value
    ELSE IF HoldingArray(given.value) = {} THEN returned.value = Arr(<<>>)
    ELSE \E i \in HoldingArray(given.value) :
           /\ \A j \in HoldingArray(given.value) : i <= j
           /\ returned.value = Lookup(given.value.o, ProbedKeys[i])

\* {data: [2], sessions: [1]} gave [1].
C21_SessionsBeforeData ==
  /\ returned.by = "normalizeArray"
  /\ given.to = "coerce"
  /\ given.value = O2("data", Arr(<<Num(2)>>), "sessions", Arr(<<Num(1)>>))
  /\ returned.value = Arr(<<Num(1)>>)

\* The texts of the inputs that Number() reads as a finite number, and the
\* texts that new Date() reads as a date.
NumericTexts == {"0", "42", " 7 "}
DateTexts == {"2024-01-01T00:00:00Z", "2024-01-01T00:00:30.000Z", "Mon, 01 Jan 2024 00:00:00 GMT"}

\* Texts that neither Number() nor new Date() can read.
PlainTexts == {"", " ", "abc", "true", "next tuesday"}

\* The form YYYY-MM-DDTHH:mm:ss.sssZ of the results the model produces.
IsoTexts ==
  {"2024-01-01T00:00:00.000Z", "2024-01-01T00:00:30.000Z", "2024-01-01T00:01:00.000Z"}

IsText(v) == v.t = "string" /\ "s" \in DOMAIN v

\* coerceString: strings pass through, numbers and booleans are stringified,
\* everything else is absent.
CoerceStringAsDocumented ==
  returned.by = "coerceString" =>
    CASE given.value.t = "string" -> returned.value = given.value
      [] given.value.t = "number" ->
           IsText(returned.value) /\ NumberOf(returned.value.s) = given.value
      [] given.value.t = "Infinity" -> IsText(returned.value)
      [] given.value.t = "boolean" ->
           returned.value = IF given.value.b THEN Str("true") ELSE Str("false")
      [] OTHER -> returned.value = Undefined

\* coerceNumber: finite numbers pass through, numeric text that is not blank
\* is parsed, everything else is absent.
CoerceNumberAsDocumented ==
  returned.by = "coerceNumber" =>
    CASE given.value.t = "number" -> returned.value = given.value
      [] IsText(given.value) /\ given.value.s \in NumericTexts ->
           returned.value.t = "number" /\ StringOf(returned.value) \in {Str("0"), Str("42"), Str("7")}
           /\ NumberOf(given.value.s) = returned.value
      [] OTHER -> returned.value = Undefined

\* coerceTimestamp: a date string gives the ISO string of the same instant,
\* text that is no date is absent, and any other value gives an ISO string or
\* is absent.
CoerceTimestampAsDocumented ==
  returned.by = "coerceTimestamp" =>
    CASE IsText(given.value) /\ given.value.s \in DateTexts ->
           /\ IsText(returned.value)
           /\ returned.value.s \in IsoTexts
           /\ DateParse(returned.value.s) = DateParse(given.value.s)
      [] IsText(given.value) /\ given.value.s \in PlainTexts -> returned.value = Undefined
      [] OTHER -> returned.value = Undefined \/ (IsText(returned.value) /\ returned.value.s \in IsoTexts)

\* C22: coerceString, coerceNumber and coerceTimestamp raise for no input and
\* return a value of their documented type or absent: strings pass through,
\* numbers and booleans are stringified, finite numbers pass through, numeric
\* text that is not blank is parsed, a date string gives the ISO string of the
\* same instant, and everything else is absent.
C22_CoercionsAsDocumented ==
  (given.to = "coerce" /\ returned.by \in {"coerceString", "coerceNumber", "coerceTimestamp"}) =>
    /\ returned.value # TypeError
    /\ CoerceStringAsDocumented
    /\ CoerceNumberAsDocumented
    /\ CoerceTimestampAsDocumented

\* Blank text was given to coerceNumber, which returned absent and not 0.
C22_BlankTextIsNoNumber ==
  /\ returned.by = "coerceNumber"
  /\ given.to = "coerce"
  /\ given.value = Str(" ")
  /\ returned.value = Undefined

\* getAgentState has returned for a session.
AgentStateReturned == given.to = "getAgentState" /\ returned.by = "getAgentState"

\* The session was updated at or before now, less than 30 seconds ago.
LessThan30sBeforeNow ==
  /\ returned.session.updatedAt.t = "number"
  /\ returned.session.updatedAt.n <= given.now
  /\ given.now - returned.session.updatedAt.n < 30

\* The session was updated less than 30 seconds ago or is ahead of the clock of the browser.
LessThan30sOld ==
  /\ returned.session.updatedAt.t = "number"
  /\ given.now - returned.session.updatedAt.n < 30

ThinkingLevelNonEmpty ==
  returned.session.thinkingLevel.t = "string" /\ returned.session.thinkingLevel # Str("")

ThinkingLevelAbsent == returned.session.thinkingLevel = Undefined

\* C23 as stated: getAgentState returns "thinking" exactly when updatedAt is less
\* than 30 seconds before now and thinkingLevel is present and non-empty,
\* "executing" exactly when updatedAt is that recent and thinkingLevel is
\* absent, "idle" otherwise, and never "complete".
C23_StateFromRecencyAndLevel ==
  AgentStateReturned =>
    /\ returned.value = Str("thinking") <=> (LessThan30sBeforeNow /\ ThinkingLevelNonEmpty)
    /\ returned.value = Str("executing") <=> (LessThan30sBeforeNow /\ ThinkingLevelAbsent)
    /\ returned.value \in {Str("thinking"), Str("executing"), Str("idle")}

\* C23 amended: "thinking" exactly when now is less than 30 seconds past
\* updatedAt and thinkingLevel is present and non-empty, "executing" exactly
\* when now is less than 30 seconds past updatedAt and thinkingLevel is absent
\* or empty, "idle" otherwise, and never "complete".
C23_StateFromAgeAndLevel ==
  AgentStateReturned =>
    /\ returned.value = Str("thinking") <=> (LessThan30sOld /\ ThinkingLevelNonEmpty)
    /\ returned.value = Str("executing") <=> (LessThan30sOld /\ ~ThinkingLevelNonEmpty)
    /\ returned.value \in {Str("thinking"), Str("executing"), Str("idle")}

\* A session updated 29 seconds ago whose thinking level is the empty string is executing.
C23_EmptyLevelIsExecuting ==
  /\ AgentStateReturned
  /\ returned.session.updatedAt = Num(given.now - 29)
  /\ returned.session.thinkingLevel = Str("")
  /\ returned.value = Str("executing")

\* C24: in every telemetry response risk.gatewayDown is the negation of
\* gateway.available, gateway.error is null exactly when gateway.available is
\* true and a non-empty string otherwise, and gateway.available is true
\* exactly when the sessions_list call was ok and its result had no truthy
\* error field.
C24_AvailabilityFlagsAgree ==
  (route \in TelemetryRoutes /\ pc = "done") =>
    /\ response.body.risk.gatewayDown = ~response.body.gateway.available
    /\ response.body.gateway.error = Null <=> response.body.gateway.available
    /\ ~response.body.gateway.available =>
         (response.body.gateway.error.t = "string" /\ Truthy(response.body.gateway.error))
    /\ response.body.gateway.available <=>
         (sessionsResponse.ok /\ ~CarriesError(sessionsResponse.result))

\* C25: every normalized session has a non-empty key, so in every telemetry
\* response sessions.total is the number of sessions, terminal.sourceSession
\* is null exactly when the session list is empty, and terminal.items is
\* non-empty and sessionStatus non-null only when a main session was selected.
C25_KeysAreNeverEmpty ==
  (route \in TelemetryRoutes /\ pc = "done") =>
    /\ \A i \in 1..Len(response.body.sessions.sessions.a) :
         /\ response.body.sessions.sessions.a[i].key.t = "string"
         /\ response.body.sessions.sessions.a[i].key # Str("")
    /\ response.body.sessions.total = Len(response.body.sessions.sessions.a)
    /\ response.body.terminal.sourceSession = Null <=> Len(response.body.sessions.sessions.a) = 0
    /\ (Len(response.body.terminal.items.a) > 0 \/ response.body.sessionStatus # Null) =>
         /\ mainSession # Undefined
         /\ response.body.terminal.sourceSession = mainSession.key

\* A session listed with no key, session_id or id was served under the key
\* "unknown", was selected as the main session and had its status fetched.
C25_NamelessSessionIsUnknown ==
  /\ route = "telemetry"
  /\ pc = "done"
  /\ Len(response.body.sessions.sessions.a) = 1
  /\ response.body.sessions.sessions.a[1].label = Str("nameless")
  /\ response.body.sessions.sessions.a[1].key = Str("unknown")
  /\ response.body.terminal.sourceSession = Str("unknown")
  /\ response.body.sessionStatus # Null

\* The categories the current telemetry handler has no tool for.
Unpopulated(body) == <<body.processes, body.queues, body.systemEvents, body.usage>>

\* C26: in the current telemetry handler no gateway call is made for
\* processes, queues, system events or usage; in every response their item
\* lists are empty, their tool tag is null and their four warnings are present,
\* so warnings is non-empty even when every gateway call succeeded.
C26_FourCategoriesNeverPopulated ==
  route = "telemetry" =>
    /\ \A i \in 1..Len(calls) :
         calls[i].tool \in {"sessions_list", "sessions_history", "session_status", "cron"}
    /\ pc = "done" =>
         /\ \A k \in 1..4 : Unpopulated(response.body)[k] = [tool |-> Null, items |-> Arr(<<>>)]
         /\ Warned("process list")
         /\ Warned("queues")
         /\ Warned("system events")
         /\ Warned("usage")
         /\ Len(response.body.warnings.a) >= 4

\* Every gateway call of the request succeeded and the response carries the four warnings alone.
C26_AllSucceededFourWarnings ==
  /\ route = "telemetry"
  /\ pc = "done"
  /\ Len(calls) = 5
  /\ \A i \in 1..Len(calls) : calls[i].outcome = "accepted"
  /\ Len(response.body.warnings.a) = 4

\* A request of the current telemetry handler has made at most six gateway
\* calls, no two of them with the same tool and arguments.
AtMostSixDistinctCalls ==
  /\ Len(calls) <= 6
  /\ \A i \in 1..Len(calls) : Rank(calls[i]) \in 1..6
  /\ \A i, j \in 1..Len(calls) :
       (calls[i].tool = calls[j].tool /\ calls[i].args = calls[j].args) => i = j

\* C27: one telemetry request issues at most six gateway calls (sessions_list,
\* sessions_history, session_status, cron list, cron runs, cron run), each
\* combination of tool and arguments at most once, and once every call it
\* issued has returned or failed the handler ends with a response, never
\* without one.
C27_SixCallsThenAResponse ==
  route = "telemetry" =>
    /\ AtMostSixDistinctCalls
    /\ pc # "thrown"
    /\ pc = "done" => response.status = 200

\* The telemetry request i of the mounted page completes in this step.
Completes(i) ==
  /\ dashboard = "mounted"
  /\ i \in 1..Len(requests)
  /\ requests[i].state = "pending"
  /\ requests'[i].state # "pending"

\* What a step does to the state of the page: the effect of a fetch that
\* completes in it, and nothing when none does.
EffectOfFetch ==
  /\ \A i \in 1..Len(requests) :
       Completes(i) =>
         IF requests'[i].state = "failed"
         THEN /\ telemetry' = telemetry
              /\ lastUpdate' = lastUpdate
              /\ connected' = FALSE
              /\ pageError'.t = "string"
         ELSE /\ telemetry' # Null
              /\ telemetry'.request = i
              /\ connected' = telemetry'.available
              /\ pageError' = Null
  /\ (\A i \in 1..Len(requests) : ~Completes(i)) =>
       (connected' = connected /\ telemetry' = telemetry /\ pageError' = pageError)
  /\ connected' => (telemetry' # Null /\ telemetry'.available /\ pageError' = Null)

\* C28: when a telemetry fetch of the page fails, the stored snapshot and
\* lastUpdate stay as they were, connected becomes false and the error message
\* is set; when it succeeds the snapshot is replaced, the error is cleared and
\* connected takes gateway.available of the response; nothing else changes
\* connected, so it is true only if the fetch completed last succeeded with
\* gateway.available true.
C28_FailureKeepsSnapshot == [][EffectOfFetch]_vars

\* A fetch failed after another had stored a snapshot of an available
\* gateway: the snapshot is still shown, with the page offline and an error.
C28_SnapshotSurvivedFailure ==
  /\ dashboard = "mounted"
  /\ Len(requests) >= 2
  /\ requests[1].state = "applied"
  /\ requests[2].state = "failed"
  /\ telemetry # Null
  /\ telemetry.request = 1
  /\ telemetry.available
  /\ ~connected
  /\ pageError # Null

\* C29: whenever the dashboard displays an operator for a session list, it is
\* the session the telemetry route selected as main for the terminal feed
\* (terminal.sourceSession), and the operator is not displayed as a worker too.
C29_OperatorIsTheMainSession ==
  (SessionsAreShown /\ returned.operator # Undefined) =>
    /\ returned.operator.key = returned.sourceSession
    /\ ~Among(returned.operator, returned.subagents)

\* The first of the coerced candidates that is not absent, absent when all are.
FirstPresent(coerced) ==
  IF \A i \in 1..Len(coerced) : coerced[i] = Undefined THEN Undefined
  ELSE coerced[CHOOSE i \in 1..Len(coerced) :
                 coerced[i] # Undefined /\ \A j \in 1..(i - 1) : coerced[j] = Undefined]

\* The candidates of a field, coerced, in the order of their priority.
NumbersOf(record, spellings) == [i \in 1..Len(spellings) |-> coerceNumber(Lookup(record.o, spellings[i]))]
StringsOf(record, spellings) == [i \in 1..Len(spellings) |-> coerceString(Lookup(record.o, spellings[i]))]
TimestampsOf(record, spellings) == [i \in 1..Len(spellings) |-> coerceTimestamp(Lookup(record.o, spellings[i]))]

\* The time in epoch units of a coerced timestamp, absent for an absent one.
EpochOf(timestamp) == IF timestamp = Undefined THEN Undefined ELSE DateParse(timestamp.s)

\* The session field updatedAt is the epoch value of the first of updated_at,
\* updatedAt, last_activity, lastActivity that parses as a date.
UpdatedAtIsFirstDate ==
  returned.by = "normalizeSession" =>
    returned.value.updatedAt =
      EpochOf(FirstPresent(TimestampsOf(given.record, <<"updated_at", "updatedAt", "last_activity", "lastActivity">>)))

\* C30: every normalized field with several candidate spellings holds the
\* coercion of the first candidate, in priority order, whose coercion is not
\* absent, also when that coercion is 0 or the empty string; the updatedAt of
\* a session is the epoch value of the first of its four candidates that
\* parses as a date.
C30_FirstPresentCandidateWins ==
  given.to = "normalizeFields" =>
    /\ returned.by = "normalizeSession" =>
         /\ returned.value.totalTokens = FirstPresent(NumbersOf(given.record, <<"total_tokens", "totalTokens">>))
         /\ returned.value.thinkingLevel = FirstPresent(StringsOf(given.record, <<"thinking_level", "thinkingLevel">>))
    /\ UpdatedAtIsFirstDate
    /\ returned.by = "normalizeQueue" =>
         /\ returned.value.depth = FirstPresent(NumbersOf(given.record, <<"depth", "size", "count">>))
         /\ returned.value.inflight = FirstPresent(NumbersOf(given.record, <<"inflight", "in_progress">>))
         /\ returned.value.updatedAt = FirstPresent(TimestampsOf(given.record, <<"updated_at", "last_updated">>))
    /\ returned.by = "normalizeProcess" =>
         /\ returned.value.cpu = FirstPresent(NumbersOf(given.record, <<"cpu", "cpu_pct">>))
         /\ returned.value.memory = FirstPresent(NumbersOf(given.record, <<"memory", "mem_mb">>))

====
